---- MODULE Spec2Model ----
(***************************************************************************)
(* A model of edge-net's asynchronous DHCP client and server               *)
(* (src/src/asynch/dhcp.rs) and of its HTTP server                         *)
(* (src/src/asynch/http/server.rs).                                        *)
(*                                                                         *)
(* The client part follows client::Client: the `settings` field, and the   *)
(* position of a run() or release() call at each of its await points       *)
(* (socket bind, send, select(receive, timer), timer).  The loop heads of  *)
(* run(), discover() and request() are positions of their own, because the *)
(* clock is read there; a future can only be dropped at an await point.    *)
(*                                                                         *)
(* The packet codec and the protocol cores (crate::dhcp) are not part of   *)
(* the sources at hand; the operators that stand for them are written from *)
(* the specification and are marked so where they are defined.             *)
(*                                                                         *)
(* Time is counted in seconds and kept relative: `wait` is the time since  *)
(* offer_start / request_start, `age` the time since the lease was         *)
(* acquired.  The `secs` field of the emitted packets is not modelled.     *)
(***************************************************************************)
EXTENDS Integers, Sequences, FiniteSets, TLC

\* ------------------------------------------------------------------ bounds

\* Transaction ids the random number source can deliver: 0..MaxXid.
MaxXid == 1

\* ------------------------------------------------------- program constants

ClientPort == 68
ServerPort == 67
DefaultTimeoutSecs == 10
DefaultLeaseSecs == 7200
BoundSleepSecs == 60
DiscoverPollSecs == 3
DiscoverSleepSecs == 3
RequestPollSecs == 10
RequestAttempts == 3

\* --------------------------------------------------------------- addresses

UNSPECIFIED == "0.0.0.0"
BROADCAST == "255.255.255.255"
NoIp == "none"                      \* Option<Ipv4Addr>::None
ClientIps == {"10.0.0.5", "10.0.0.6"}
ServerIps == {"10.0.0.1", "10.0.0.2"}

\* The client's own hardware address and a foreign one.
ClientMac == "02:00:00:00:00:01"
ForeignMac == "02:00:00:00:00:02"

Xids == 0..MaxXid
NoXid == MaxXid + 1                 \* no message built yet

\* Option<T>: None is the empty sequence, Some(x) the sequence <<x>>.
None == <<>>
Some(x) == <<x>>
IsSome(o) == o # <<>>
Unwrap(o) == o[1]

\* Lease times a server may put into a reply (seconds).
LeaseTimes == {None, Some(30), Some(90)}

Min(a, b) == IF a < b THEN a ELSE b

\* lease_time_secs.unwrap_or(7200) / 3: the age at which run() renews.
RenewalAge(s) ==
    (IF IsSome(s.lease_time_secs) THEN Unwrap(s.lease_time_secs)
                                  ELSE DefaultLeaseSecs) \div 3

\* The age of a lease saturates one sleep beyond its renewal age: from there on
\* every comparison made by run() has the same outcome.
AgeCap(s) == RenewalAge(s) + BoundSleepSecs

\* Time that may pass between two calls of the client's API.
IdleSecs == {BoundSleepSecs}

\* A select that looks at its second future first.
SelectTimerFirst(firstReady, secondReady) ==
    IF secondReady THEN "Second" ELSE IF firstReady THEN "First" ELSE "Pending"

\* select(socket.receive_into(self.buf), timer): the first future is polled
\* first, so that it wins when both are ready in the same poll.
Select(firstReady, secondReady) ==
    IF firstReady THEN "First" ELSE IF secondReady THEN "Second" ELSE "Pending"

\* When a receive that races a timer of T seconds may complete: at once, just
\* before the timer, or in the very poll in which the timer fires.
RecvDelays(T) == {0, T - 1, T}

\* ------------------------------------------------------------ wire (codec)

\* Sizes of the working buffer a caller may supply: one too small for any
\* client message or server reply, and the recommended 576 bytes.
BufLens == {250, 576}

\* Encoded length of the messages the client emits: 236 bytes of BOOTP header,
\* 4 of cookie, MessageType, ClientIdentifier, ParameterRequestList,
\* RequestedIp and End.
ClientMessageLen == 236 + 4 + 3 + 8 + 8 + 6 + 1
EncodeFits(len, bufLen) == len <= bufLen

\* A received datagram: one that does not decode, or a decoded packet.
Garbage ==
    [decodable |-> FALSE, reply |-> FALSE, xid |-> 0, mt |-> "Discover",
     chaddr |-> ForeignMac, yiaddr |-> UNSPECIFIED, sid |-> NoIp, lease |-> None]

\* Decoded packets.  Those that are no Offer or Ack addressed to this client
\* all carry the same yiaddr and options: nothing reads them.
Replies ==
    { r \in [decodable : {TRUE}, reply : BOOLEAN, xid : Xids,
             mt : {"Offer", "Ack", "Nak", "Discover"},
             chaddr : {ClientMac, ForeignMac}, yiaddr : ClientIps \cup {UNSPECIFIED},
             sid : ServerIps \cup {NoIp}, lease : LeaseTimes] :
        IF r.reply /\ r.chaddr = ClientMac /\ r.mt \in {"Offer", "Ack"}
        THEN r.yiaddr \in ClientIps
        ELSE r.yiaddr = UNSPECIFIED /\ r.sid = NoIp /\ r.lease = None }

Datagrams == {Garbage} \cup Replies

\* Packet::decode: Ok for a well-formed packet, Err otherwise.
Decodes(d) == d.decodable

\* dhcp::client::Client::is_offer / is_ack / is_nak.
IsReplyFor(reply, x, mt) ==
    /\ reply.reply
    /\ reply.xid = x
    /\ reply.mt = mt
    /\ reply.chaddr = ClientMac

is_offer(reply, x) == IsReplyFor(reply, x, "Offer")
is_ack(reply, x) == IsReplyFor(reply, x, "Ack")
is_nak(reply, x) == IsReplyFor(reply, x, "Nak")

\* Settings::from(&Packet)
SettingsOf(reply) ==
    [ip |-> reply.yiaddr, server_ip |-> reply.sid, lease_time_secs |-> reply.lease]

\* ------------------------------------------------------------------ client

VARIABLES
    conf,        \* what the client was built with: [socket, timeout, bufLen]
    settings,    \* Client::settings: None or Some(Settings)
    age,         \* seconds since the Instant stored beside the settings
    idled,       \* history: since that Instant, time has passed while no
                 \*          call was in progress
    call,        \* the API call in progress or made last: "none", "run", "release"
    pc,          \* position of that call ("idle": no call in progress)
    loc,         \* the locals of the call in progress:
                 \*   site     call site of request(): "acquire" or "renew"
                 \*   server   request()'s server_ip argument
                 \*   ip       request()'s ip argument
                 \*   attempt  iteration of `for _ in 0..3`, 1..3
                 \*   wait     seconds since offer_start / request_start
                 \*   xid      xid of the Discover/Request built last
                 \*   prevXid  history: xid of the message built before it
                 \*   offer    history: the Offer discover() returned
    socket,      \* the socket held: None or Some([kind, local, remote])
    result,      \* what the last call returned: [kind, val]
    firstTx,     \* history: type of the first message sent by this call
    lastTx,      \* history: the message sent last by this call
    lastRx,      \* history: how the datagram received last was treated:
                 \*          [how, xid, mt], how one of "accepted", "wrong_xid",
                 \*          "other", "undecodable"
    rxLate,      \* history: the step just taken accepted a reply that became
                 \*          ready in the very poll in which the wait timer fired
    afterNone,   \* history: the run() call before this one returned Ok(None)
    relCount,    \* history: Release messages sent by this release() call
    prevRel      \* history: Release messages sent by the release() call
                 \*          made immediately before this call

\* The server's side: see below.
VARIABLES
    sconf,       \* what the server was built with: [socket, ip, bufLen]
    leases,      \* Server::server.leases: hardware address -> lease
    snow,        \* the server's clock (seconds)
    spc,         \* position of the server's run(): "stopped", "bind", "recv", "send"
    sresult,     \* what the last run() of the server returned
    cur,         \* the send in progress: [remote, reply, dst]
    handled,     \* history: what became of the datagram received last: "none"
                 \*          (nothing received), "undecodable", "reply", "no_reply"
    sent         \* history: datagrams sent since it was received, while run()
                 \*          is in progress

\* The raw adapter's side: see below.
VARIABLES
    rsock,       \* the adapter socket held: None or Some([kind, local, remote]),
                 \*   kind "connected" (ConnectedUdp2RawSocket) or "unconnected"
                 \*   (UnconnectedUdp2RawSocket, remote None)
    rpc,         \* position of the adapter call in progress: "idle", "bind",
                 \*   "send", "recv" (the await of the raw socket's operation)
    rcall,       \* the call in progress or made last: [op, local, remote, data]
    rbuffer,     \* the caller's buffer handed to receive_into
    rresult,     \* what the last call returned: [kind, len, local, remote]
    rbinds,      \* history: raw sockets bound by this call
    rsent,       \* history: frames handed to the raw socket by this call
    rseen,       \* history: what ip_udp_decode made of each frame this
                 \*   receive_into read, in arrival order
    raccepted    \* history: the frame in the scratch buffer when the receive
                 \*   loop was left by `break`

\* The HTTP server (src/src/asynch/http/server.rs): one connection going
\* through handle_request, and Server::process with its workers.
VARIABLES
    hbuilder,    \* HandlerChainBuilder: the current path and the chain built so
                 \* far, in the order of registration
    hpc,         \* "building", "idle", "handler", "complete" or "done"
    hreq,        \* the request read by ServerConnection::new
    hconn,       \* ServerConnection: "none", "RequestState", "Taken" (that is
                 \* RequestState(None)) or "ResponseState"
    hunread,     \* chunks of the request body not read yet
    hwritten,    \* what this request's connection has written to its io
    hinvoked,    \* chain entry whose handler ran (0: the terminal `()`)
    hret,        \* what the handler returned: "none", "Ok" or "Err"
    hlast,       \* what the last complete_request call returned
    hio,         \* history: an I/O error occurred while handling the request
    hresult,     \* what handle_request returned
    pchan,       \* Server::process: the connections waiting in the channel
    pheld,       \* the connection the acceptor has accepted and not sent yet
    pworkers,    \* the connection each worker is serving (0: waiting in recv)
    pnext,       \* the connection the acceptor's next accept will return
    phanded,     \* history: the workers each connection was handed to
    ppc          \* "running", "returned" (Ok(())) or "panicked"

hvars == <<hbuilder, hpc, hreq, hconn, hunread, hwritten, hinvoked, hret, hlast, hio,
           hresult>>

pvars == <<pchan, pheld, pworkers, pnext, phanded, ppc>>

svars == <<sconf, leases, snow, spc, sresult, cur, handled, sent>>

rvars == <<rsock, rpc, rcall, rbuffer, rresult, rbinds, rsent, rseen, raccepted>>

cvars == <<conf, settings, age, idled, call, pc, loc, socket, result, firstTx, lastTx,
           lastRx, rxLate, afterNone, relCount, prevRel>>

NoTx == [type |-> "none", src |-> <<NoIp, 0>>, dst |-> <<NoIp, 0>>, xid |-> NoXid, ip |-> NoIp]
NoLocals ==
    [site |-> "none", server |-> NoIp, ip |-> NoIp, attempt |-> 0, wait |-> 0,
     xid |-> NoXid, prevXid |-> NoXid, offer |-> None]
NoRx == [how |-> "none", xid |-> NoXid, mt |-> "none"]
Rx(how, dgram) ==
    [how |-> how, xid |-> dgram.xid,
     mt |-> IF how \in {"accepted", "wrong_xid"} THEN dgram.mt ELSE "none"]
Res(kind, val) == [kind |-> kind, val |-> val]

\* The await points of run() and release(): where the future can be dropped.
RunAwaits == {"disc_bind", "disc_send", "disc_recv", "disc_sleep",
              "req_bind", "req_send", "req_recv", "bound_sleep"}
ReleaseAwaits == {"rel_connect", "rel_send"}

\* Client::new with Configuration::new(mac), and a working buffer.
ClientInit ==
    /\ conf \in [socket : {<<UNSPECIFIED, ClientPort>>},
                 timeout : {DefaultTimeoutSecs}, bufLen : BufLens]
    /\ settings = None
    /\ age = 0
    /\ idled = FALSE
    /\ call = "none"
    /\ pc = "idle"
    /\ loc = NoLocals
    /\ socket = None
    /\ result = Res("none", None)
    /\ firstTx = "none"
    /\ lastTx = NoTx
    /\ lastRx = NoRx
    /\ rxLate = FALSE
    /\ afterNone = FALSE
    /\ relCount = 0
    /\ prevRel = 0

\* A call ends: with a value, an error or a panic.  Its locals go, the socket
\* of the phase among them.
Return(kind, val) ==
    /\ pc' = IF kind = "Panic" THEN "panicked" ELSE "idle"
    /\ result' = Res(kind, val)
    /\ loc' = NoLocals
    /\ socket' = None

\* Instant::now() - acquired >= lease_time_secs.unwrap_or(7200) / 3
RenewalDue(s, a) == a >= RenewalAge(s)

\* The user calls run().
RunCall ==
    /\ pc = "idle"
    /\ UNCHANGED <<svars, rvars, hvars, pvars>>
    /\ rxLate' = FALSE
    /\ call' = "run"
    /\ pc' = "run_loop"
    /\ result' = Res("pending", None)
    /\ afterNone' = (call = "run" /\ result.kind = "OkNone")
    /\ firstTx' = "none"
    /\ lastTx' = NoTx
    /\ lastRx' = NoRx
    /\ relCount' = 0
    /\ prevRel' = 0
    /\ UNCHANGED <<conf, settings, age, idled, loc, socket>>

\* Entry of request(server_ip, ip) from run(): the first iteration of its for
\* loop.  The locals of a discover() that has returned are gone.
EnterRequest(where, server, ip, offered) ==
    /\ loc' = [NoLocals EXCEPT !.site = where, !.server = server, !.ip = ip,
                               !.attempt = 1, !.offer = offered]
    /\ pc' = "req_bind"
    /\ socket' = None

\* A variant of RunLoop that looks for offers while a lease is held and no
\* renewal is due.
RunLoopDiscoveringWhenBound ==
    /\ pc = "run_loop"
    /\ UNCHANGED <<svars, rvars, hvars, pvars>>
    /\ rxLate' = FALSE
    /\ IF IsSome(settings) /\ RenewalDue(Unwrap(settings), age)
       THEN IF Unwrap(settings).server_ip = NoIp
            THEN Return("Panic", None)
            ELSE /\ EnterRequest("renew", Unwrap(settings).server_ip,
                                 Unwrap(settings).ip, None)
                 /\ UNCHANGED result
       ELSE /\ pc' = "disc_bind"
            /\ loc' = NoLocals
            /\ UNCHANGED <<socket, result>>
    /\ UNCHANGED <<conf, settings, age, idled, call, firstTx, lastTx, lastRx, afterNone,
                   relCount, prevRel>>

\* The head of run()'s loop: keep the lease, renew it, or look for offers.
RunLoop ==
    /\ pc = "run_loop"
    /\ UNCHANGED <<svars, rvars, hvars, pvars>>
    /\ rxLate' = FALSE
    /\ IF IsSome(settings)
       THEN IF RenewalDue(Unwrap(settings), age)
            THEN IF Unwrap(settings).server_ip = NoIp
                 THEN Return("Panic", None)
                 ELSE /\ EnterRequest("renew", Unwrap(settings).server_ip,
                                      Unwrap(settings).ip, None)
                      /\ UNCHANGED result
            ELSE /\ pc' = "bound_sleep"
                 /\ loc' = NoLocals
                 /\ UNCHANGED <<socket, result>>
       ELSE /\ pc' = "disc_bind"
            /\ loc' = NoLocals
            /\ UNCHANGED <<socket, result>>
    /\ UNCHANGED <<conf, settings, age, idled, call, firstTx, lastTx, lastRx, afterNone,
                   relCount, prevRel>>

\* Timer::after(60 s) of the Bound state fires.
BoundSleep ==
    /\ pc = "bound_sleep"
    /\ UNCHANGED <<svars, rvars, hvars, pvars>>
    /\ rxLate' = FALSE
    /\ age' = Min(age + BoundSleepSecs, AgeCap(Unwrap(settings)))
    /\ UNCHANGED idled
    /\ pc' = "run_loop"
    /\ UNCHANGED <<conf, settings, call, loc, socket, result, firstTx, lastTx,
                   lastRx, afterNone, relCount, prevRel>>

\* Time passes while no call is in progress.
Elapse ==
    /\ pc = "idle"
    /\ UNCHANGED <<svars, rvars, hvars, pvars>>
    /\ rxLate' = FALSE
    /\ IsSome(settings)
    /\ age < AgeCap(Unwrap(settings))
    /\ \E d \in IdleSecs : age' = Min(age + d, AgeCap(Unwrap(settings)))
    /\ idled' = TRUE
    /\ UNCHANGED <<conf, settings, call, pc, loc, socket, result, firstTx, lastTx,
                   lastRx, afterNone, relCount, prevRel>>

\* A message goes out on the wire.
Transmit(type, src, dst, x, ip) ==
    /\ lastTx' = [type |-> type, src |-> src, dst |-> dst, xid |-> x, ip |-> ip]
    /\ firstTx' = IF firstTx = "none" THEN type ELSE firstTx

\* A Discover or Request is built: the random number source gives its xid.
Build(x) == [loc EXCEPT !.xid = x, !.prevXid = loc.xid]

\* ---- discover()

\* bind_multiple(0.0.0.0:68) completes; then the Discover is built and encoded
\* into the working buffer.
DiscBind ==
    /\ pc = "disc_bind"
    /\ UNCHANGED <<svars, rvars, hvars, pvars>>
    /\ rxLate' = FALSE
    /\ \E ok \in BOOLEAN :
         IF ~ok
         THEN Return("ErrIo", None)
         ELSE IF ~EncodeFits(ClientMessageLen, conf.bufLen)
         THEN Return("ErrFormat", None)
         ELSE \E x \in Xids :
                /\ loc' = Build(x)
                /\ pc' = "disc_send"
                /\ socket' = Some([kind |-> "multiple",
                                   local |-> <<UNSPECIFIED, ClientPort>>,
                                   remote |-> <<NoIp, 0>>])
                /\ UNCHANGED result
    /\ UNCHANGED <<conf, settings, age, idled, call, firstTx, lastTx, lastRx, afterNone,
                   relCount, prevRel>>

\* socket.send(0.0.0.0:68 -> 255.255.255.255:67) completes.
DiscSend ==
    /\ pc = "disc_send"
    /\ UNCHANGED <<svars, rvars, hvars, pvars>>
    /\ rxLate' = FALSE
    /\ \E ok \in BOOLEAN :
         IF ~ok
         THEN /\ Return("ErrIo", None)
              /\ UNCHANGED <<firstTx, lastTx, lastRx>>
         ELSE /\ Transmit("Discover", <<UNSPECIFIED, ClientPort>>,
                          <<BROADCAST, ServerPort>>, loc.xid, NoIp)
              /\ lastRx' = NoRx
              /\ loc' = [loc EXCEPT !.wait = 0]
              /\ pc' = "disc_loop"
              /\ UNCHANGED <<socket, result>>
    /\ UNCHANGED <<conf, settings, age, idled, call, afterNone, relCount, prevRel>>

\* A variant of DiscLoop that keeps the socket over the sleep between rounds.
DiscLoopKeepingSocket ==
    /\ pc = "disc_loop"
    /\ UNCHANGED <<svars, rvars, hvars, pvars>>
    /\ rxLate' = FALSE
    /\ IF loc.wait < conf.timeout
       THEN /\ pc' = "disc_recv"
            /\ UNCHANGED <<loc, socket>>
       ELSE /\ pc' = "disc_sleep"
            /\ loc' = [loc EXCEPT !.wait = 0]
            /\ UNCHANGED socket
    /\ UNCHANGED <<conf, settings, age, idled, call, result, firstTx, lastTx, lastRx,
                   afterNone, relCount, prevRel>>

\* while Instant::now() - offer_start < self.timeout; after it drop(socket).
DiscLoop ==
    /\ pc = "disc_loop"
    /\ UNCHANGED <<svars, rvars, hvars, pvars>>
    /\ rxLate' = FALSE
    /\ IF loc.wait < conf.timeout
       THEN /\ pc' = "disc_recv"
            /\ UNCHANGED <<loc, socket>>
       ELSE /\ pc' = "disc_sleep"
            /\ loc' = [loc EXCEPT !.wait = 0]
            /\ socket' = None
    /\ UNCHANGED <<conf, settings, age, idled, call, result, firstTx, lastTx, lastRx,
                   afterNone, relCount, prevRel>>

\* select(receive, timer): the 3 s timer wins.
DiscTimer ==
    /\ pc = "disc_recv"
    /\ Select(FALSE, TRUE) = "Second"
    /\ UNCHANGED <<svars, rvars, hvars, pvars>>
    /\ rxLate' = FALSE
    /\ loc' = [loc EXCEPT !.wait = loc.wait + DiscoverPollSecs]
    /\ pc' = "disc_loop"
    /\ UNCHANGED <<conf, settings, age, idled, call, socket, result, firstTx, lastTx,
                   lastRx, afterNone, relCount, prevRel>>

\* is_offer(&reply, xid), with the xid of the Discover sent in this round.
OfferAccepted(reply) == is_offer(reply, loc.xid)

\* How a datagram that was not accepted is remembered: a reply to this client
\* of a type the phase waits for, but with another xid, or anything else.
Ignored(dgram, types) ==
    IF dgram.reply /\ dgram.chaddr = ClientMac /\ dgram.mt \in types
    THEN Rx("wrong_xid", dgram) ELSE Rx("other", dgram)

\* select(receive, timer): the receive completes first, d seconds into the wait,
\* with a datagram.  A matching Offer ends discover(); run() then unwraps the
\* offer's server_ip and enters request().
DiscRecv ==
    /\ pc = "disc_recv"
    /\ UNCHANGED <<svars, rvars, hvars, pvars>>
    /\ \E d \in RecvDelays(DiscoverPollSecs), dgram \in Datagrams :
         IF Select(TRUE, d >= DiscoverPollSecs) # "First"
         THEN /\ lastRx' = Rx("lost", dgram)
              /\ rxLate' = FALSE
              /\ loc' = [loc EXCEPT !.wait = loc.wait + DiscoverPollSecs]
              /\ pc' = "disc_loop"
              /\ UNCHANGED <<socket, result>>
         ELSE IF ~Decodes(dgram)
         THEN /\ Return("ErrFormat", None)
              /\ lastRx' = Rx("undecodable", dgram)
              /\ rxLate' = FALSE
         ELSE IF OfferAccepted(dgram)
         THEN /\ lastRx' = Rx("accepted", dgram)
              /\ rxLate' = (d >= DiscoverPollSecs)
              /\ IF dgram.sid = NoIp
                 THEN Return("Panic", None)
                 ELSE /\ EnterRequest("acquire", dgram.sid, dgram.yiaddr,
                                      Some(SettingsOf(dgram)))
                      /\ UNCHANGED result
         ELSE /\ lastRx' = Ignored(dgram, {"Offer"})
              /\ rxLate' = FALSE
              /\ loc' = [loc EXCEPT !.wait = loc.wait + d]
              /\ pc' = "disc_loop"
              /\ UNCHANGED <<socket, result>>
    /\ UNCHANGED <<conf, settings, age, idled, call, firstTx, lastTx, afterNone,
                   relCount, prevRel>>

\* select(receive, timer): the receive completes first with an I/O error.
DiscRecvIoError ==
    /\ pc = "disc_recv"
    /\ UNCHANGED <<svars, rvars, hvars, pvars>>
    /\ rxLate' = FALSE
    /\ Return("ErrIo", None)
    /\ UNCHANGED <<conf, settings, age, idled, call, firstTx, lastTx, lastRx, afterNone,
                   relCount, prevRel>>

\* Timer::after(DiscoverSleepSecs) between two rounds fires.
DiscSleep ==
    /\ pc = "disc_sleep"
    /\ UNCHANGED <<svars, rvars, hvars, pvars>>
    /\ rxLate' = FALSE
    /\ pc' = "disc_bind"
    /\ UNCHANGED <<conf, settings, age, idled, call, loc, socket, result, firstTx, lastTx,
                   lastRx, afterNone, relCount, prevRel>>

\* ---- request()

\* A variant of RequestReturnsNone in which run() returns Ok(None) from the
\* renewal site without clearing the settings.
RequestReturnsNoneKeepingLease ==
    IF loc.site = "renew"
    THEN /\ UNCHANGED <<settings, age, idled>>
         /\ Return("OkNone", None)
    ELSE /\ pc' = "run_loop"
         /\ loc' = NoLocals
         /\ socket' = None
         /\ UNCHANGED <<settings, age, idled, result>>

\* A variant of RequestReturnsNone in which run() returns Ok(None) at the
\* acquisition site as well.
RequestReturnsNoneAtBothSites ==
    /\ settings' = None
    /\ age' = 0
    /\ idled' = FALSE
    /\ Return("OkNone", None)

\* request() returns Ok(None) to run(): at the renewal site the lease is given
\* up and run() returns Ok(None); at the acquisition site run() loops.
RequestReturnsNone ==
    IF loc.site = "renew"
    THEN /\ settings' = None
         /\ age' = 0
         /\ idled' = FALSE
         /\ Return("OkNone", None)
    ELSE /\ pc' = "run_loop"
         /\ loc' = NoLocals
         /\ socket' = None
         /\ UNCHANGED <<settings, age, idled, result>>

\* A variant of RequestReturnsSome in which run() returns the settings at the
\* renewal site as well.
RequestReturnsSomeAtBothSites(s) ==
    /\ settings' = Some(s)
    /\ age' = 0
    /\ idled' = FALSE
    /\ Return("OkSome", Some(s))

\* A variant of RequestReturnsSome in which a renewal leaves the stored lease
\* and its instant as they were.
RequestReturnsSomeKeepingOld(s) ==
    IF loc.site = "renew"
    THEN /\ pc' = "run_loop"
         /\ loc' = NoLocals
         /\ socket' = None
         /\ UNCHANGED <<settings, age, idled, result>>
    ELSE /\ settings' = Some(s)
         /\ age' = 0
         /\ idled' = FALSE
         /\ Return("OkSome", Some(s))

\* request() returns Ok(Some(s)) to run(): the lease is stored with the
\* current instant; at the acquisition site run() returns it, at the renewal
\* site run() loops.
RequestReturnsSome(s) ==
    /\ settings' = Some(s)
    /\ age' = 0
    /\ idled' = FALSE
    /\ IF loc.site = "renew"
       THEN /\ pc' = "run_loop"
            /\ loc' = NoLocals
            /\ socket' = None
            /\ UNCHANGED result
       ELSE Return("OkSome", Some(s))

\* bind_multiple(<server_ip>:68) completes; then the Request is built and
\* encoded.
ReqBind ==
    /\ pc = "req_bind"
    /\ UNCHANGED <<svars, rvars, hvars, pvars>>
    /\ rxLate' = FALSE
    /\ \E ok \in BOOLEAN :
         IF ~ok
         THEN Return("ErrIo", None)
         ELSE IF ~EncodeFits(ClientMessageLen, conf.bufLen)
         THEN Return("ErrFormat", None)
         ELSE \E x \in Xids :
                /\ loc' = Build(x)
                /\ pc' = "req_send"
                /\ socket' = Some([kind |-> "multiple",
                                   local |-> <<loc.server, ClientPort>>,
                                   remote |-> <<NoIp, 0>>])
                /\ UNCHANGED result
    /\ UNCHANGED <<conf, settings, age, idled, call, firstTx, lastTx, lastRx, afterNone,
                   relCount, prevRel>>

\* socket.send(0.0.0.0:68 -> <server_ip>:67) completes.
ReqSend ==
    /\ pc = "req_send"
    /\ UNCHANGED <<svars, rvars, hvars, pvars>>
    /\ rxLate' = FALSE
    /\ \E ok \in BOOLEAN :
         IF ~ok
         THEN /\ Return("ErrIo", None)
              /\ UNCHANGED <<firstTx, lastTx, lastRx>>
         ELSE /\ Transmit("Request", <<UNSPECIFIED, ClientPort>>,
                          <<loc.server, ServerPort>>, loc.xid, loc.ip)
              /\ lastRx' = NoRx
              /\ loc' = [loc EXCEPT !.wait = 0]
              /\ pc' = "req_loop"
              /\ UNCHANGED <<socket, result>>
    /\ UNCHANGED <<conf, settings, age, idled, call, afterNone, relCount, prevRel>>

\* A variant of ReqLoop whose for loop makes one attempt more.
ReqLoopOneMoreAttempt ==
    /\ pc = "req_loop"
    /\ UNCHANGED <<svars, rvars, hvars, pvars>>
    /\ rxLate' = FALSE
    /\ IF loc.wait < conf.timeout
       THEN /\ pc' = "req_recv"
            /\ UNCHANGED <<settings, age, idled, loc, socket, result>>
       ELSE IF loc.attempt <= RequestAttempts
       THEN /\ loc' = [loc EXCEPT !.attempt = loc.attempt + 1, !.wait = 0]
            /\ pc' = "req_bind"
            /\ socket' = None
            /\ UNCHANGED <<settings, age, idled, result>>
       ELSE RequestReturnsNone
    /\ UNCHANGED <<conf, call, firstTx, lastTx, lastRx, afterNone, relCount, prevRel>>

\* while Instant::now() - request_start < self.timeout; when the wait is over
\* the socket is dropped and the for loop goes on, or request() gives up.
ReqLoop ==
    /\ pc = "req_loop"
    /\ UNCHANGED <<svars, rvars, hvars, pvars>>
    /\ rxLate' = FALSE
    /\ IF loc.wait < conf.timeout
       THEN /\ pc' = "req_recv"
            /\ UNCHANGED <<settings, age, idled, loc, socket, result>>
       ELSE IF loc.attempt < RequestAttempts
       THEN /\ loc' = [loc EXCEPT !.attempt = loc.attempt + 1, !.wait = 0]
            /\ pc' = "req_bind"
            /\ socket' = None
            /\ UNCHANGED <<settings, age, idled, result>>
       ELSE RequestReturnsNone
    /\ UNCHANGED <<conf, call, firstTx, lastTx, lastRx, afterNone, relCount, prevRel>>

\* select(receive, timer): the 10 s timer wins.
ReqTimer ==
    /\ pc = "req_recv"
    /\ Select(FALSE, TRUE) = "Second"
    /\ UNCHANGED <<svars, rvars, hvars, pvars>>
    /\ rxLate' = FALSE
    /\ loc' = [loc EXCEPT !.wait = loc.wait + RequestPollSecs]
    /\ pc' = "req_loop"
    /\ UNCHANGED <<conf, settings, age, idled, call, socket, result, firstTx, lastTx,
                   lastRx, afterNone, relCount, prevRel>>

\* A variant of AckAccepted that takes an Ack for this client whatever its xid.
AckAcceptedAnyXid(reply) ==
    reply.reply /\ reply.mt = "Ack" /\ reply.chaddr = ClientMac

\* is_ack(&reply, xid), with the xid of the Request sent in this attempt.
AckAccepted(reply) == is_ack(reply, loc.xid)
\* is_nak(&reply, xid), likewise.
NakAccepted(reply) == is_nak(reply, loc.xid)

\* select(receive, timer): the receive completes first, d seconds into the wait,
\* with a datagram.
ReqRecv ==
    /\ pc = "req_recv"
    /\ UNCHANGED <<svars, rvars, hvars, pvars>>
    /\ \E d \in RecvDelays(RequestPollSecs), dgram \in Datagrams :
         IF Select(TRUE, d >= RequestPollSecs) # "First"
         THEN /\ lastRx' = Rx("lost", dgram)
              /\ rxLate' = FALSE
              /\ loc' = [loc EXCEPT !.wait = loc.wait + RequestPollSecs]
              /\ pc' = "req_loop"
              /\ UNCHANGED <<settings, age, idled, socket, result>>
         ELSE IF ~Decodes(dgram)
         THEN /\ Return("ErrFormat", None)
              /\ lastRx' = Rx("undecodable", dgram)
              /\ rxLate' = FALSE
              /\ UNCHANGED <<settings, age, idled>>
         ELSE IF AckAccepted(dgram)
         THEN /\ lastRx' = Rx("accepted", dgram)
              /\ rxLate' = (d >= RequestPollSecs)
              /\ RequestReturnsSome(SettingsOf(dgram))
         ELSE IF NakAccepted(dgram)
         THEN /\ lastRx' = Rx("accepted", dgram)
              /\ rxLate' = (d >= RequestPollSecs)
              /\ RequestReturnsNone
         ELSE /\ lastRx' = Ignored(dgram, {"Ack", "Nak"})
              /\ rxLate' = FALSE
              /\ loc' = [loc EXCEPT !.wait = loc.wait + d]
              /\ pc' = "req_loop"
              /\ UNCHANGED <<settings, age, idled, socket, result>>
    /\ UNCHANGED <<conf, call, firstTx, lastTx, afterNone, relCount, prevRel>>

\* select(receive, timer): the receive completes first with an I/O error.
ReqRecvIoError ==
    /\ pc = "req_recv"
    /\ UNCHANGED <<svars, rvars, hvars, pvars>>
    /\ rxLate' = FALSE
    /\ Return("ErrIo", None)
    /\ UNCHANGED <<conf, settings, age, idled, call, firstTx, lastTx, lastRx, afterNone,
                   relCount, prevRel>>

\* ---- release()

\* The user calls release().  Without a lease nothing awaits: the call clears
\* the settings and returns.  With a lease it unwraps the server's address and
\* awaits connect_from.
ReleaseCall ==
    /\ pc = "idle"
    /\ UNCHANGED <<svars, rvars, hvars, pvars>>
    /\ rxLate' = FALSE
    /\ call' = "release"
    /\ relCount' = 0
    /\ prevRel' = IF call = "release" THEN relCount ELSE 0
    /\ afterNone' = FALSE
    /\ firstTx' = "none"
    /\ lastTx' = NoTx
    /\ lastRx' = NoRx
    /\ IF IsSome(settings)
       THEN IF Unwrap(settings).server_ip = NoIp
            THEN /\ Return("Panic", None)
                 /\ UNCHANGED <<settings, age, idled>>
            ELSE /\ pc' = "rel_connect"
                 /\ result' = Res("pending", None)
                 /\ UNCHANGED <<settings, age, idled, loc, socket>>
       ELSE /\ settings' = None
            /\ age' = 0
            /\ idled' = FALSE
            /\ Return("OkUnit", None)
    /\ UNCHANGED conf

\* connect_from(self.socket, <server_ip>:<self.socket.port()>) completes; then
\* the Release is built and encoded.
RelConnect ==
    /\ pc = "rel_connect"
    /\ UNCHANGED <<svars, rvars, hvars, pvars>>
    /\ rxLate' = FALSE
    /\ \E ok \in BOOLEAN :
         IF ~ok
         THEN Return("ErrIo", None)
         ELSE IF ~EncodeFits(ClientMessageLen, conf.bufLen)
         THEN Return("ErrFormat", None)
         ELSE /\ pc' = "rel_send"
              /\ socket' = Some([kind |-> "connected",
                                 local |-> conf.socket,
                                 remote |-> <<Unwrap(settings).server_ip,
                                              conf.socket[2]>>])
              /\ UNCHANGED <<loc, result>>
    /\ UNCHANGED <<conf, settings, age, idled, call, firstTx, lastTx, lastRx, afterNone,
                   relCount, prevRel>>

\* socket.send completes; on success the settings are cleared and release()
\* returns without waiting for a reply.
RelSend ==
    /\ pc = "rel_send"
    /\ UNCHANGED <<svars, rvars, hvars, pvars>>
    /\ rxLate' = FALSE
    /\ \E ok \in BOOLEAN :
         IF ~ok
         THEN /\ Return("ErrIo", None)
              /\ UNCHANGED <<settings, age, idled, firstTx, lastTx, relCount>>
         ELSE /\ Transmit("Release", Unwrap(socket).local, Unwrap(socket).remote,
                          NoXid, Unwrap(settings).ip)
              /\ relCount' = relCount + 1
              /\ settings' = None
              /\ age' = 0
              /\ idled' = FALSE
              /\ Return("OkUnit", None)
    /\ UNCHANGED <<conf, call, lastRx, afterNone, prevRel>>

\* ---- cancellation

\* A variant of DropFuture in which the lease goes with the future.
DropFutureLosingLease ==
    /\ pc \in RunAwaits \cup ReleaseAwaits
    /\ UNCHANGED <<svars, rvars, hvars, pvars>>
    /\ rxLate' = FALSE
    /\ pc' = "idle"
    /\ result' = Res("Dropped", None)
    /\ loc' = NoLocals
    /\ socket' = None
    /\ settings' = None
    /\ age' = 0
    /\ idled' = FALSE
    /\ UNCHANGED <<conf, call, firstTx, lastTx, lastRx, afterNone, relCount, prevRel>>

\* The future of run() or release() is dropped at an await point: its locals
\* (the socket among them) go, the fields of the client stay.
DropFuture ==
    /\ pc \in RunAwaits \cup ReleaseAwaits
    /\ UNCHANGED <<svars, rvars, hvars, pvars>>
    /\ rxLate' = FALSE
    /\ pc' = "idle"
    /\ result' = Res("Dropped", None)
    /\ loc' = NoLocals
    /\ socket' = None
    /\ UNCHANGED <<conf, settings, age, idled, call, firstTx, lastTx, lastRx, afterNone,
                   relCount, prevRel>>

ClientNext ==
    \/ RunCall
    \/ RunLoop
    \/ BoundSleep
    \/ Elapse
    \/ DiscBind
    \/ DiscSend
    \/ DiscLoop
    \/ DiscTimer
    \/ DiscRecv
    \/ DiscRecvIoError
    \/ DiscSleep
    \/ ReqBind
    \/ ReqSend
    \/ ReqLoop
    \/ ReqTimer
    \/ ReqRecv
    \/ ReqRecvIoError
    \/ ReleaseCall
    \/ RelConnect
    \/ RelSend
    \/ DropFuture


\* ------------------------------------------------------------------ server

\* Addresses of the server's pool are numbered; RangeStart..RangeEnd is the
\* configured range, the address after it lies outside.
RangeStart == 100
PoolSize == 3
RangeEnd == RangeStart + PoolSize - 1
NoAddr == 0                          \* 0.0.0.0, and an absent RequestedIp
Addrs == RangeStart..(RangeEnd + 1)

\* Capacity N of the lease map (the const generic of Server<N>).
Capacity == 2

\* The server's clock stops here.
MaxNow == 2
LeaseDurationSecs == 1

ServerIp == "10.0.0.1"
OtherServerIp == "10.0.0.2"

\* Hardware addresses of clients: aa:bb:cc:dd:ee:01 .. :03, and the all-zero one.
ZeroMac == <<"mac", 0>>
Macs == {<<"mac", 1>>, <<"mac", 2>>, <<"mac", 3>>}
\* The synthetic hardware address a declined address is held under.
PoisonMac(ip) == <<"poisoned", ip>>

\* Where a datagram may come from.
Remotes == {<<UNSPECIFIED, ClientPort>>, <<"10.0.0.9", 1068>>}

\* Decoded requests.  Fields that handle_request does not read for a message
\* type are left at their defaults.  A Request names its address in RequestedIp
\* (selecting, ciaddr zero) or in ciaddr (renewing, no ServerIdentifier); the
\* broadcast flag only matters beside a ciaddr.
Requests ==
    { r \in [decodable : {TRUE}, request : BOOLEAN,
             mt : {"Discover", "Request", "Decline", "Release", "Inform", "Offer", "none"},
             chaddr : Macs \cup {ZeroMac}, ciaddr : Addrs \cup {NoAddr},
             reqip : Addrs \cup {NoAddr}, sid : {NoIp, ServerIp, OtherServerIp},
             broadcast : BOOLEAN] :
        /\ (r.mt \in {"Offer", "none"} \/ ~r.request \/ r.chaddr = ZeroMac
               \/ r.sid = OtherServerIp)
              => /\ r.ciaddr = NoAddr /\ r.reqip = NoAddr
                 /\ r.chaddr \in {ZeroMac, <<"mac", 1>>}
        /\ r.mt # "Request" => r.sid = NoIp
        /\ r.mt = "Request" /\ r.ciaddr # NoAddr => r.reqip = NoAddr /\ r.sid = NoIp
        /\ r.mt \in {"Discover", "Decline"} => r.ciaddr = NoAddr
        /\ r.mt \in {"Release", "Inform"} => r.reqip = NoAddr
        /\ r.mt = "Inform" => r.ciaddr \in {NoAddr, RangeStart} /\ r.chaddr = <<"mac", 1>>
        /\ r.broadcast => r.ciaddr # NoAddr /\ r.mt \in {"Request", "Inform"} }

GarbageRequest ==
    [decodable |-> FALSE, request |-> FALSE, mt |-> "none", chaddr |-> ZeroMac,
     ciaddr |-> NoAddr, reqip |-> NoAddr, sid |-> NoIp, broadcast |-> FALSE]

\* ---- dhcp::server::Server::handle_request and its helpers

InRange(ip) == ip >= RangeStart /\ ip <= RangeEnd
Expired(lease, now) == lease.expires_at < now

\* The hardware addresses that hold `ip` in the lease map.
Holders(ls, ip) == {m \in DOMAIN ls : ls[m].ip = ip}

\* An address can be given out when no lease holds it, or only expired ones.
Free(ls, ip, now) == \A m \in Holders(ls, ip) : Expired(ls[m], now)

Remove(ls, ms) == [m \in DOMAIN ls \ ms |-> ls[m]]
Insert(ls, mac, lease) ==
    [m \in DOMAIN ls \cup {mac} |-> IF m = mac THEN lease ELSE ls[m]]

\* The lowest address of the range that is unassigned or expired.
LowestFree(ls, now) ==
    LET free == {ip \in RangeStart..RangeEnd : Free(ls, ip, now)}
    IN  IF free = {} THEN NoAddr
        ELSE CHOOSE ip \in free : \A other \in free : ip <= other

\* A variant of SelectIp that honours a RequestedIp without looking at the
\* range.
SelectIpAnyRequested(ls, mac, reqip, now) ==
    IF mac \in DOMAIN ls THEN ls[mac].ip
    ELSE IF reqip # NoAddr /\ Free(ls, reqip, now) THEN reqip
    ELSE LowestFree(ls, now)

\* Discover: the address selected for `mac`.
SelectIp(ls, mac, reqip, now) ==
    IF mac \in DOMAIN ls THEN ls[mac].ip
    ELSE IF reqip # NoAddr /\ InRange(reqip) /\ Free(ls, reqip, now) THEN reqip
    ELSE LowestFree(ls, now)

\* The expired lease with the earliest expiry, when the map is full.
Evictable(ls, now) == {m \in DOMAIN ls : Expired(ls[m], now)}
Earliest(ls, ms) ==
    CHOOSE m \in ms : \A other \in ms : ls[m].expires_at <= ls[other].expires_at

\* A variant of Record that leaves an expired lease of the same address in the
\* map.
RecordBesideExpired(ls, mac, lease, now) ==
    IF mac \in DOMAIN ls \/ Cardinality(DOMAIN ls) < Capacity
    THEN [ok |-> TRUE, leases |-> Insert(ls, mac, lease)]
    ELSE IF Evictable(ls, now) # {}
    THEN [ok |-> TRUE,
          leases |-> Insert(Remove(ls, {Earliest(ls, Evictable(ls, now))}), mac, lease)]
    ELSE [ok |-> FALSE, leases |-> ls]

\* Record mac -> lease.  An expired lease of the same address gives way to it;
\* a full map gives up its earliest expired lease, or refuses.
Record(ls, mac, lease, now) ==
    LET reused == Remove(ls, Holders(ls, lease.ip) \ {mac})
    IN  IF mac \in DOMAIN reused \/ Cardinality(DOMAIN reused) < Capacity
        THEN [ok |-> TRUE, leases |-> Insert(reused, mac, lease)]
        ELSE IF Evictable(reused, now) # {}
        THEN [ok |-> TRUE,
              leases |-> Insert(Remove(reused, {Earliest(reused, Evictable(reused, now))}),
                                mac, lease)]
        ELSE [ok |-> FALSE, leases |-> ls]

Reply(mt, request, yiaddr) ==
    [mt |-> mt, yiaddr |-> yiaddr,
     broadcast |-> (request.broadcast \/ request.ciaddr = NoAddr)]
NoReply(ls) == [reply |-> None, leases |-> ls]

HandleDiscover(ls, request, now) ==
    LET mac == request.chaddr
        ip == SelectIp(ls, mac, request.reqip, now)
        rec == Record(ls, mac,
                      [ip |-> ip, expires_at |-> now + LeaseDurationSecs,
                       committed |-> FALSE], now)
    IN  IF ip = NoAddr THEN NoReply(ls)
        ELSE IF mac \in DOMAIN ls
        THEN [reply |-> Some(Reply("Offer", request, ip)), leases |-> ls]
        ELSE IF rec.ok
        THEN [reply |-> Some(Reply("Offer", request, ip)), leases |-> rec.leases]
        ELSE NoReply(ls)

HandleRequest(ls, request, now) ==
    LET mac == request.chaddr
        ip == IF request.reqip # NoAddr THEN request.reqip ELSE request.ciaddr
    IN  IF request.sid # NoIp /\ request.sid # ServerIp THEN NoReply(ls)
        ELSE IF mac \in DOMAIN ls /\ ls[mac].ip = ip /\ InRange(ip)
        THEN [reply |-> Some(Reply("Ack", request, ip)),
              leases |-> [ls EXCEPT ![mac] =
                             [ip |-> ip, expires_at |-> now + LeaseDurationSecs,
                              committed |-> TRUE]]]
        ELSE [reply |-> Some(Reply("Nak", request, NoAddr)), leases |-> ls]

HandleDecline(ls, request) ==
    LET mac == request.chaddr
    IN  IF mac \in DOMAIN ls /\ ls[mac].ip = request.reqip
        THEN NoReply(Insert(Remove(ls, {mac}), PoisonMac(ls[mac].ip), ls[mac]))
        ELSE NoReply(ls)

HandleRelease(ls, request) ==
    LET mac == request.chaddr
    IN  IF mac \in DOMAIN ls /\ ls[mac].ip = request.ciaddr
        THEN NoReply(Remove(ls, {mac}))
        ELSE NoReply(ls)

handle_request(ls, request, now) ==
    IF ~request.request \/ request.chaddr = ZeroMac THEN NoReply(ls)
    ELSE CASE request.mt = "Discover" -> HandleDiscover(ls, request, now)
           [] request.mt = "Request" -> HandleRequest(ls, request, now)
           [] request.mt = "Decline" -> HandleDecline(ls, request)
           [] request.mt = "Release" -> HandleRelease(ls, request)
           [] request.mt = "Inform" ->
                [reply |-> Some(Reply("Ack", request, NoAddr)), leases |-> ls]
           [] OTHER -> NoReply(ls)

\* Encoded length of a reply: header, cookie, MessageType, ServerIdentifier,
\* End, and LeaseTime in an Offer or Ack that assigns an address.
ReplyLen(reply) ==
    236 + 4 + 3 + 6 + 1 + (IF reply.yiaddr # NoAddr THEN 6 ELSE 0)

\* ---- asynch::dhcp::server::Server

NoCur == [remote |-> <<NoIp, 0>>, reply |-> None, dst |-> <<NoIp, 0>>]
EmptyLeases == [m \in {} |-> 0]

\* Server::new: an empty lease map.
ServerInit ==
    /\ sconf \in [socket : {<<UNSPECIFIED, ServerPort>>}, ip : {ServerIp},
                  bufLen : BufLens]
    /\ leases = EmptyLeases
    /\ snow = 0
    /\ spc = "stopped"
    /\ sresult = "none"
    /\ cur = NoCur
    /\ handled = "none"
    /\ sent = 0

\* run() of the server ends: with an error, or because its future is dropped.
ServerReturn(err) ==
    /\ spc' = "stopped"
    /\ sresult' = err
    /\ cur' = NoCur

\* The user calls run() of the server.
ServerRunCall ==
    /\ spc = "stopped"
    /\ spc' = "bind"
    /\ sresult' = "pending"
    /\ handled' = "none"
    /\ sent' = 0
    /\ UNCHANGED <<sconf, leases, snow, cur>>
    /\ UNCHANGED <<cvars, rvars, hvars, pvars>>

\* bind_multiple(self.socket) completes.
ServerBind ==
    /\ spc = "bind"
    /\ \E ok \in BOOLEAN :
         IF ok THEN spc' = "recv" /\ UNCHANGED <<sresult, cur>>
               ELSE ServerReturn("ErrIo")
    /\ UNCHANGED <<sconf, leases, snow, handled, sent>>
    /\ UNCHANGED <<cvars, rvars, hvars, pvars>>

\* A variant of ReplyDestination that always answers the sender.
ReplyDestinationToSender(reply, remote) == remote

\* Where the reply goes: the broadcast address and the sender's port when the
\* reply asks for broadcast, else the sender.
ReplyDestination(reply, remote) ==
    IF reply.broadcast THEN <<BROADCAST, remote[2]>> ELSE remote

\* socket.receive_into completes with a datagram from `remote`: it is decoded
\* and handed to handle_request; a reply is encoded into the buffer and the
\* send to its destination is begun.
ServerRecv ==
    /\ spc = "recv"
    /\ \E dgram \in Requests \cup {GarbageRequest} :
         IF ~Decodes(dgram)
         THEN /\ ServerReturn("ErrFormat")
              /\ handled' = "undecodable"
              /\ UNCHANGED leases
         ELSE LET out == handle_request(leases, dgram, snow)
              IN  /\ leases' = out.leases
                  /\ handled' = IF out.reply = None THEN "no_reply" ELSE "reply"
                  /\ IF out.reply = None
                     THEN /\ cur' = NoCur
                          /\ UNCHANGED <<spc, sresult>>
                     ELSE IF ~EncodeFits(ReplyLen(Unwrap(out.reply)), sconf.bufLen)
                     THEN ServerReturn("ErrFormat")
                     ELSE \E remote \in Remotes :
                            /\ spc' = "send"
                            /\ cur' = [remote |-> remote, reply |-> out.reply,
                                       dst |-> ReplyDestination(Unwrap(out.reply),
                                                                remote)]
                            /\ UNCHANGED sresult
    /\ sent' = 0
    /\ UNCHANGED <<sconf, snow>>
    /\ UNCHANGED <<cvars, rvars, hvars, pvars>>

\* socket.receive_into completes with an I/O error.
ServerRecvIoError ==
    /\ spc = "recv"
    /\ ServerReturn("ErrIo")
    /\ sent' = 0
    /\ UNCHANGED <<sconf, leases, snow, handled>>
    /\ UNCHANGED <<cvars, rvars, hvars, pvars>>

\* socket.send(local, destination, reply) completes; the loop goes on to
\* receive.
ServerSend ==
    /\ spc = "send"
    /\ \E ok \in BOOLEAN :
         IF ok
         THEN /\ sent' = sent + 1
              /\ spc' = "recv"
              /\ cur' = NoCur
              /\ UNCHANGED sresult
         ELSE /\ ServerReturn("ErrIo")
              /\ UNCHANGED sent
    /\ UNCHANGED <<sconf, leases, snow, handled>>
    /\ UNCHANGED <<cvars, rvars, hvars, pvars>>

\* The future of the server's run() is dropped at an await point; the lease
\* map stays.
ServerDrop ==
    /\ spc \in {"bind", "recv", "send"}
    /\ ServerReturn("Dropped")
    /\ sent' = 0
    /\ UNCHANGED <<sconf, leases, snow, handled>>
    /\ UNCHANGED <<cvars, rvars, hvars, pvars>>

ServerNext ==
    \/ ServerRunCall
    \/ ServerBind
    \/ ServerRecv
    \/ ServerRecvIoError
    \/ ServerSend
    \/ ServerDrop

\* ---- the protocol core on its own, over time

\* handle_request is applied to a request; what it makes of the lease map is
\* kept.
ServerHandles ==
    /\ \E request \in Requests :
         leases' = handle_request(leases, request, snow).leases
    /\ UNCHANGED <<sconf, snow, spc, sresult, cur, handled, sent>>
    /\ UNCHANGED <<cvars, rvars, hvars, pvars>>

\* A second passes on the server's clock.
ServerTick ==
    /\ snow < MaxNow
    /\ snow' = snow + 1
    /\ UNCHANGED <<sconf, leases, spc, sresult, cur, handled, sent>>
    /\ UNCHANGED <<cvars, rvars, hvars, pvars>>

LeaseNext ==
    \/ ServerHandles
    \/ ServerTick

\* ------------------------------------------------------------ raw adapter

\* Longest UDP payload a frame of the model carries, the most frames one
\* receive_into skips, and the length of the caller's receive buffer.
MaxPayload == 3
MaxFrames == 3
RawBufLen == 2

\* `let mut buf = [0; 1500]`
ScratchLen == 1500

\* Header lengths of the raw codec (crate::dhcp::raw, written from the
\* specification).
IpHeaderLen == 20
UdpHeaderLen == 8

\* SocketAddr: V4(ip, port) or V6; a V6 address is carried as such.
V4(ip, port) == [v |-> 4, ip |-> ip, port |-> port]
V6Addr == [v |-> 6, ip |-> <<>>, port |-> 0]

\* The payloads of the model (n bytes 201, 202, ..) and the caller's buffer as
\* it is handed in.
Payloads == {[i \in 1..n |-> 200 + i] : n \in 0..MaxPayload}
FreshBuffer == [i \in 1..RawBufLen |-> 0]

\* Big-endian 16-bit field.
U16(x) == <<x \div 256, x % 256>>

\* The Internet checksum: one's complement of the one's complement sum of the
\* 16-bit words (a last odd byte is padded with zero).
RECURSIVE SumWords(_)
SumWords(s) ==
    IF Len(s) = 0 THEN 0
    ELSE IF Len(s) = 1 THEN s[1] * 256
    ELSE s[1] * 256 + s[2] + SumWords(SubSeq(s, 3, Len(s)))

Checksum(s) ==
    LET Carry(x) == (x % 65536) + (x \div 65536)
    IN  65535 - Carry(Carry(SumWords(s)))

\* An IPv4 packet of the given protocol carrying a UDP header and payload: a
\* 20-byte IPv4 header (version 4, IHL 5, TTL 64, header checksum), then an
\* 8-byte UDP header whose checksum covers the pseudo-header, the UDP header
\* and the payload, a zero result being written as 0xFFFF.
Frame(src, dst, proto, payload) ==
    LET udpLen == UdpHeaderLen + Len(payload)
        IpHeader(sum) ==
            <<69, 0>> \o U16(IpHeaderLen + udpLen) \o <<0, 0, 0, 0, 64, proto>>
                \o U16(sum) \o src.ip \o dst.ip
        UdpHeader(sum) == U16(src.port) \o U16(dst.port) \o U16(udpLen) \o U16(sum)
        pseudo == src.ip \o dst.ip \o <<0, 17>> \o U16(udpLen)
        udpSum == Checksum(pseudo \o UdpHeader(0) \o payload)
    IN  IpHeader(Checksum(IpHeader(0)))
            \o UdpHeader(IF udpSum = 0 THEN 65535 ELSE udpSum) \o payload

\* raw::ip_udp_encode, with the payload the `fill` closure wrote.
ip_udp_encode(src, dst, payload) == Frame(src, dst, 17, payload)

\* A filter matches an address of the same IP and port; a filter port of 0
\* matches any port, and no filter matches everything.
FilterMatches(filter, addr) ==
    \/ filter = None
    \/ /\ Unwrap(filter).ip = addr.ip
       /\ Unwrap(filter).port \in {0, addr.port}

\* raw::ip_udp_decode: kind "some" with (src, dst, payload), "none", or one of
\* the errors "InvalidFormat", "InvalidChecksum".
ip_udp_decode(bytes, filter_src, filter_dst) ==
    LET Outcome(kind) == [kind |-> kind, src |-> V6Addr, dst |-> V6Addr, data |-> <<>>]
        FromU16(i) == bytes[i] * 256 + bytes[i + 1]
    IN  IF Len(bytes) < IpHeaderLen THEN Outcome("InvalidFormat")
        ELSE IF bytes[1] \div 16 # 4 THEN Outcome("none")
        ELSE IF Checksum(SubSeq(bytes, 1, IpHeaderLen)) # 0
             THEN Outcome("InvalidChecksum")
        ELSE IF bytes[10] # 17 THEN Outcome("none")
        ELSE IF Len(bytes) < IpHeaderLen + UdpHeaderLen
                \/ IpHeaderLen + FromU16(IpHeaderLen + 5) > Len(bytes)
                \/ FromU16(IpHeaderLen + 5) < UdpHeaderLen
             THEN Outcome("InvalidFormat")
        ELSE LET src == V4(SubSeq(bytes, 13, 16), FromU16(IpHeaderLen + 1))
                 dst == V4(SubSeq(bytes, 17, 20), FromU16(IpHeaderLen + 3))
                 data == SubSeq(bytes, IpHeaderLen + UdpHeaderLen + 1,
                                IpHeaderLen + FromU16(IpHeaderLen + 5))
             IN  IF FilterMatches(filter_src, src) /\ FilterMatches(filter_dst, dst)
                 THEN [kind |-> "some", src |-> src, dst |-> dst, data |-> data]
                 ELSE Outcome("none")

\* What the link delivers: UDP datagrams between two hosts on the ports 67 and
\* 68, a TCP segment, an IPv6 packet, a frame cut short, and a frame with a
\* header byte (the TTL) changed on the way.
RawFrames ==
    LET wire == {V4(ip, port) : ip \in {<<10, 0, 0, 1>>, <<10, 0, 0, 2>>},
                                port \in {ServerPort, ClientPort}}
        from == V4(<<10, 0, 0, 2>>, ServerPort)
        to == V4(<<10, 0, 0, 1>>, ClientPort)
        udp == ip_udp_encode(from, to, <<201>>)
    IN  {ip_udp_encode(src, dst, payload) :
            src \in wire, dst \in wire, payload \in Payloads}
        \cup {Frame(from, to, 6, <<201>>),
              [udp EXCEPT ![1] = 96],
              SubSeq(udp, 1, IpHeaderLen - 1),
              [udp EXCEPT ![9] = 63]}

\* ---- the adapter's calls

\* Addresses callers hand to the adapter: IPv4 ones (a local port of 0 among
\* them) and an IPv6 one.
LocalArgs == {V4(<<10, 0, 0, 1>>, ClientPort), V4(<<10, 0, 0, 1>>, 0), V6Addr}
RemoteArgs == {V4(<<10, 0, 0, 2>>, ServerPort), V6Addr}

RawResult(kind) == [kind |-> kind, len |-> 0, local |-> V6Addr, remote |-> V6Addr]

RawInit ==
    /\ rsock = None
    /\ rpc = "idle"
    /\ rcall = [op |-> "none", local |-> V6Addr, remote |-> V6Addr, data |-> <<>>]
    /\ rbuffer = FreshBuffer
    /\ rresult = RawResult("none")
    /\ rbinds = 0
    /\ rsent = <<>>
    /\ rseen = <<>>
    /\ raccepted = <<>>

\* A call of the adapter begins: its arguments are kept, its histories start
\* anew.
RawBegin(op, local, remote, data) ==
    /\ rcall' = [op |-> op, local |-> local, remote |-> remote, data |-> data]
    /\ rbinds' = 0
    /\ rsent' = <<>>
    /\ rseen' = <<>>
    /\ raccepted' = <<>>

\* The call returns.
RawReturn(r) ==
    /\ rpc' = "idle"
    /\ rresult' = r

\* `let SocketAddr::V4(..) = .. else { Err(Error::UnsupportedProtocol)? }`:
\* which of a call's addresses must be IPv4.
AddrsSupported(op, local, remote) ==
    IF op \in {"connect_from", "send"}
    THEN local.v = 4 /\ remote.v = 4
    ELSE local.v = 4

\* connect_from(local, remote), bind_single(local), bind_multiple(local) up to
\* the await of the raw stack's bind.
RawBindCall(op, local, remote) ==
    /\ rpc = "idle"
    /\ rsock = None
    /\ RawBegin(op, local, remote, <<>>)
    /\ IF AddrsSupported(op, local, remote)
       THEN /\ rpc' = "bind"
            /\ rresult' = RawResult("pending")
       ELSE RawReturn(RawResult("UnsupportedProtocol"))
    /\ UNCHANGED <<rsock, rbuffer>>
    /\ UNCHANGED <<cvars, svars, hvars, pvars>>

\* The raw stack's bind completes: with a socket, which the adapter wraps
\* with the addresses of the call, or with an I/O error.
RawBindDone ==
    /\ rpc = "bind"
    /\ \E ok \in BOOLEAN :
         IF ok
         THEN /\ rbinds' = rbinds + 1
              /\ rsock' = Some(IF rcall.op = "connect_from"
                               THEN [kind |-> "connected", local |-> rcall.local,
                                     remote |-> Some(rcall.remote)]
                               ELSE [kind |-> "unconnected", local |-> rcall.local,
                                     remote |-> None])
              /\ RawReturn([RawResult("Ok") EXCEPT !.local = rcall.local])
         ELSE /\ RawReturn(RawResult("Io"))
              /\ UNCHANGED <<rsock, rbinds>>
    /\ UNCHANGED <<rcall, rbuffer, rsent, rseen, raccepted>>
    /\ UNCHANGED <<cvars, svars, hvars, pvars>>

\* The adapter socket is dropped.
RawClose ==
    /\ rpc = "idle"
    /\ rsock # None
    /\ rsock' = None
    /\ UNCHANGED <<rpc, rcall, rbuffer, rresult, rbinds, rsent, rseen, raccepted>>
    /\ UNCHANGED <<cvars, svars, hvars, pvars>>

\* send() up to the await of the raw socket's send.  A connected socket sends
\* from and to its own addresses, an unconnected one takes them from the
\* caller.  The `fill` closure fails when the payload does not fit what the
\* scratch buffer has left after the headers.
RawSendCall(local, remote, data) ==
    /\ rpc = "idle"
    /\ rsock # None
    /\ Unwrap(rsock).kind = "connected"
         => /\ local = Unwrap(rsock).local
            /\ remote = Unwrap(Unwrap(rsock).remote)
    /\ RawBegin("send", local, remote, data)
    /\ IF ~AddrsSupported("send", local, remote)
       THEN RawReturn(RawResult("UnsupportedProtocol"))
       ELSE IF Len(data) > ScratchLen - IpHeaderLen - UdpHeaderLen
       THEN RawReturn(RawResult("BufferOverflow"))
       ELSE /\ rpc' = "send"
            /\ rresult' = RawResult("pending")
    /\ UNCHANGED <<rsock, rbuffer>>
    /\ UNCHANGED <<cvars, svars, hvars, pvars>>

\* The raw socket's send completes: it has taken the frame, or it fails.
RawSendDone ==
    /\ rpc = "send"
    /\ \E ok \in BOOLEAN :
         IF ok
         THEN /\ rsent' = Append(rsent, ip_udp_encode(rcall.local, rcall.remote,
                                                      rcall.data))
              /\ RawReturn(RawResult("Ok"))
         ELSE /\ RawReturn(RawResult("Io"))
              /\ UNCHANGED rsent
    /\ UNCHANGED <<rsock, rcall, rbuffer, rbinds, rseen, raccepted>>
    /\ UNCHANGED <<cvars, svars, hvars, pvars>>

\* The filters the two kinds of socket hand to receive_into.
Filters(sock) ==
    IF sock.kind = "connected"
    THEN [src |-> Some(sock.local), dst |-> sock.remote]
    ELSE [src |-> None, dst |-> Some(sock.local)]

\* receive_into() up to the first await of the raw socket's receive.
RawReceiveCall ==
    /\ rpc = "idle"
    /\ rsock # None
    /\ RawBegin("receive_into", Unwrap(rsock).local, V6Addr, <<>>)
    /\ rbuffer' = FreshBuffer
    /\ rpc' = "recv"
    /\ rresult' = RawResult("pending")
    /\ UNCHANGED rsock
    /\ UNCHANGED <<cvars, svars, hvars, pvars>>

\* The match with a bad header checksum ending the receive.
ReceiveStepFailingOnChecksum(decoded) ==
    CASE decoded = "some" -> "break"
      [] decoded = "none" -> "continue"
      [] decoded = "InvalidFormat" -> "continue"
      [] OTHER -> "fail"

\* The arms of the match on what ip_udp_decode returned: leave the loop, read
\* the next frame, or fail.
ReceiveStep(decoded) ==
    CASE decoded = "some" -> "break"
      [] decoded = "none" -> "continue"
      [] decoded \in {"InvalidFormat", "InvalidChecksum"} -> "continue"
      [] OTHER -> "fail"

\* The copy filling the caller's buffer with as much as it holds.
CopyOutTruncating(buffer, buf, len) ==
    [i \in 1..Len(buffer) |-> IF i <= len THEN buf[i] ELSE buffer[i]]

\* After the loop: the first len bytes of the scratch buffer are copied into
\* the caller's buffer if it has room for them.
CopyOut(buffer, buf, len) ==
    IF len <= Len(buffer)
    THEN [i \in 1..Len(buffer) |-> IF i <= len THEN buf[i] ELSE buffer[i]]
    ELSE buffer

\* The raw socket delivers a frame into the scratch buffer; one turn of the
\* receive loop, and what follows the loop when it is left.
RawFrameArrives(frame) ==
    /\ rpc = "recv"
    /\ Len(frame) <= ScratchLen
    /\ LET decoded == ip_udp_decode(frame, Filters(Unwrap(rsock)).src,
                                    Filters(Unwrap(rsock)).dst)
           step == ReceiveStep(decoded.kind)
           len == Len(decoded.data)
       IN  /\ step = "continue" => Len(rseen) < MaxFrames
           /\ rseen' = Append(rseen, decoded.kind)
           /\ CASE step = "break" ->
                     /\ raccepted' = frame
                     /\ rbuffer' = CopyOut(rbuffer, frame, len)
                     /\ RawReturn(IF len <= Len(rbuffer)
                                  THEN [kind |-> "Ok", len |-> len,
                                        local |-> decoded.src, remote |-> decoded.dst]
                                  ELSE RawResult("BufferOverflow"))
                [] step = "continue" ->
                     UNCHANGED <<raccepted, rbuffer, rpc, rresult>>
                [] OTHER ->
                     /\ RawReturn(RawResult("RawError"))
                     /\ UNCHANGED <<raccepted, rbuffer>>
    /\ UNCHANGED <<rsock, rcall, rbinds, rsent>>
    /\ UNCHANGED <<cvars, svars, hvars, pvars>>

\* The raw socket's receive fails.
RawRecvIoError ==
    /\ rpc = "recv"
    /\ RawReturn(RawResult("Io"))
    /\ UNCHANGED <<rsock, rcall, rbuffer, rbinds, rsent, rseen, raccepted>>
    /\ UNCHANGED <<cvars, svars, hvars, pvars>>

RawNext ==
    \/ \E op \in {"connect_from", "bind_single", "bind_multiple"},
          local \in LocalArgs, remote \in RemoteArgs :
         RawBindCall(op, local, remote)
    \/ RawBindDone
    \/ RawClose
    \/ \E local \in LocalArgs, remote \in RemoteArgs, data \in Payloads :
         RawSendCall(local, remote, data)
    \/ RawSendDone
    \/ RawReceiveCall
    \/ \E frame \in RawFrames : RawFrameArrives(frame)
    \/ RawRecvIoError

\* ------------------------------------------------------------- http server

\* Entries a handler chain is built with, and chunks of a request body.
MaxRegs == 2
MaxBody == 1

\* The const parameters P (workers) and W (capacity of the channel) the model
\* runs process with, and the connections the acceptor is given.
Workers == 3
ChannelCap == 2
MaxConns == 6

\* HandlerChainBuilder::empty after RootHandlerChainBuilder::new(): no path
\* chosen yet, the chain is the terminal `()`; no connection, and
\* Server::process with every worker waiting in channel.recv().
HttpInit ==
    /\ hbuilder = [path |-> "none", chain |-> <<>>]
    /\ hpc = "building"
    /\ hreq = [path |-> "none", method |-> "none", body |-> 0]
    /\ hconn = "none"
    /\ hunread = 0
    /\ hwritten = <<>>
    /\ hinvoked = 0
    /\ hret = "none"
    /\ hlast = "none"
    /\ hio = FALSE
    /\ hresult = "pending"
    /\ pchan = <<>>
    /\ pheld = 0
    /\ pworkers = [w \in 1..Workers |-> 0]
    /\ pnext = 1
    /\ phanded = [c \in 1..MaxConns |-> {}]
    /\ ppc = "running"

\* at(path): the path the next registrations are made under.
HttpAt(path) ==
    /\ hpc = "building"
    /\ hbuilder' = [hbuilder EXCEPT !.path = path]
    /\ UNCHANGED <<hpc, hreq, hconn, hunread, hwritten, hinvoked, hret, hlast, hio,
                   hresult>>
    /\ UNCHANGED <<cvars, svars, rvars, pvars>>

\* get / post / method: a HandlerChain entry of the current path wrapped
\* around the chain built so far.
HttpMethod(method, handler) ==
    /\ hpc = "building"
    /\ hbuilder.path # "none"
    /\ Len(hbuilder.chain) < MaxRegs
    /\ hbuilder' = [hbuilder EXCEPT !.chain =
                      Append(@, [path |-> hbuilder.path, method |-> method,
                                 handler |-> handler])]
    /\ UNCHANGED <<hpc, hreq, hconn, hunread, hwritten, hinvoked, hret, hlast, hio,
                   hresult>>
    /\ UNCHANGED <<cvars, svars, rvars, pvars>>

\* create(): the builder is consumed and its chain is handed to the server,
\* which waits for a request.
HttpCreate ==
    /\ hpc = "building"
    /\ hpc' = "idle"
    /\ hbuilder' = [hbuilder EXCEPT !.path = "none"]
    /\ UNCHANGED <<hreq, hconn, hunread, hwritten, hinvoked, hret, hlast,
                   hio, hresult>>
    /\ UNCHANGED <<cvars, svars, rvars, pvars>>

\* HandlerChain::handle on a chain kept in the order of registration: the
\* entry registered last is the head of the chain and is compared first; 0
\* stands for the terminal `()`.
RECURSIVE HandlerChainHandle(_, _, _)
HandlerChainHandle(chain, path, method) ==
    IF chain = <<>> THEN 0
    ELSE IF chain[Len(chain)].path = path /\ chain[Len(chain)].method = method
         THEN Len(chain)
    ELSE HandlerChainHandle(SubSeq(chain, 1, Len(chain) - 1), path, method)

\* complete_request also writing the status line when the response was
\* started before.
complete_request_writing_again(conn, unread, written, status, io) ==
    IF conn = "Taken"
    THEN [conn |-> conn, unread |-> unread, written |-> written, ret |-> "Panic"]
    ELSE [conn |-> "ResponseState", unread |-> 0,
          written |-> Append(written, [what |-> "head", code |-> status,
                                       unread |-> 0]),
          ret |-> IF conn = "RequestState" THEN "Some" ELSE "None"]

\* complete_request: in RequestState the rest of the request body is read, the
\* request state is taken, status line, headers and the end of the headers are
\* written, and the connection becomes ResponseState; `io` says where an I/O
\* error strikes, if any.  In ResponseState nothing is done.  Each written
\* item records how much of the request body was unread when it was written.
complete_request(conn, unread, written, status, io) ==
    CASE conn = "ResponseState" ->
           [conn |-> conn, unread |-> unread, written |-> written, ret |-> "None"]
      [] conn = "RequestState" /\ io = "read" ->
           [conn |-> conn, unread |-> unread, written |-> written, ret |-> "Err"]
      [] conn = "RequestState" /\ io = "status" ->
           [conn |-> "Taken", unread |-> 0, written |-> written, ret |-> "Err"]
      [] conn = "RequestState" /\ io = "headers" ->
           [conn |-> "Taken", unread |-> 0,
            written |-> Append(written, [what |-> "status", code |-> status,
                                         unread |-> 0]),
            ret |-> "Err"]
      [] conn = "RequestState" ->
           [conn |-> "ResponseState", unread |-> 0,
            written |-> Append(written, [what |-> "head", code |-> status,
                                         unread |-> 0]),
            ret |-> "Some"]
      [] OTHER ->
           [conn |-> conn, unread |-> unread, written |-> written, ret |-> "Panic"]

\* handle_request up to the dispatch: ServerConnection::new reads the request
\* line and the headers.  Also the next turn of handle_connection's loop after
\* a request that ended with Ok(()).
HttpReceive(req, ok) ==
    /\ hpc = "idle" \/ (hpc = "done" /\ hresult = "Ok")
    /\ hreq' = req
    /\ hwritten' = <<>>
    /\ hinvoked' = 0
    /\ hret' = "none"
    /\ hlast' = "none"
    /\ hio' = ~ok
    /\ IF ok
       THEN /\ hconn' = "RequestState"
            /\ hunread' = req.body
            /\ hpc' = "handler"
            /\ hresult' = "pending"
       ELSE /\ hconn' = "none"
            /\ hunread' = 0
            /\ hpc' = "done"
            /\ hresult' = "Io"
    /\ UNCHANGED hbuilder
    /\ UNCHANGED <<cvars, svars, rvars, pvars>>

\* The dispatch and the handler it reaches, run to its end.  The path handed
\* to the chain is the empty string.  Simple returns Ok(()); Simple2 starts
\* the response with into_ok_response and returns Ok(()), or the error of
\* that call; a failing handler returns an error without touching the
\* connection.  The terminal `()` is not of this crate: it may do any of
\* these.
HttpHandler ==
    /\ hpc = "handler"
    /\ LET path == ""
           target == IF hreq.method # "none"
                     THEN HandlerChainHandle(hbuilder.chain, path, hreq.method)
                     ELSE 0
           kinds == IF target = 0 THEN {"Simple", "Simple2", "Failing"}
                    ELSE {hbuilder.chain[target].handler}
       IN  \E kind \in kinds, io \in {"ok", "read", "status", "headers"} :
             LET started == complete_request(hconn, hunread, hwritten,
                                             IF target = 0 THEN 404 ELSE 200, io)
             IN  /\ hinvoked' = target
                 /\ kind # "Simple2" => io = "ok"
                 /\ IF kind = "Simple2"
                    THEN /\ hconn' = started.conn
                         /\ hunread' = started.unread
                         /\ hwritten' = started.written
                         /\ hlast' = started.ret
                         /\ hret' = IF started.ret = "Some" THEN "Ok" ELSE "Err"
                         /\ hio' = (started.ret = "Err")
                    ELSE /\ hret' = IF kind = "Simple" THEN "Ok" ELSE "Err"
                         /\ UNCHANGED <<hconn, hunread, hwritten, hlast, hio>>
    /\ hpc' = "complete"
    /\ UNCHANGED <<hbuilder, hreq, hresult>>
    /\ UNCHANGED <<cvars, svars, rvars, pvars>>

\* The rest of handle_request: complete_response(200, "OK") after Ok, which
\* finishes the body it was given, complete_err(message) after an error,
\* which writes the message as the body of a 500 response; then Ok(()) if
\* that call completed the response and Err(IncompleteBody) if it did not.
HttpComplete ==
    /\ hpc = "complete"
    /\ \E io \in {"ok", "read", "status", "headers", "body"} :
         LET done == complete_request(hconn, hunread, hwritten,
                                      IF hret = "Ok" THEN 200 ELSE 500, io)
             tail == [what |-> IF hret = "Ok" THEN "finish" ELSE "message",
                      code |-> 0, unread |-> done.unread]
         IN  /\ hconn' = done.conn
             /\ hunread' = done.unread
             /\ hlast' = done.ret
             /\ io = "body" => done.ret = "Some"
             /\ hwritten' = IF done.ret = "Some" /\ io # "body"
                            THEN Append(done.written, tail) ELSE done.written
             /\ hio' = (hio \/ done.ret = "Err" \/ io = "body")
             /\ hresult' = CASE done.ret = "Panic" -> "Panic"
                             [] done.ret = "Err" \/ io = "body" -> "Io"
                             [] done.ret = "Some" -> "Ok"
                             [] OTHER -> "IncompleteBody"
    /\ hpc' = "done"
    /\ UNCHANGED <<hbuilder, hreq, hinvoked, hret>>
    /\ UNCHANGED <<cvars, svars, rvars, pvars>>

HttpNext ==
    \/ \E path \in {"", "/"} : HttpAt(path)
    \/ \E method \in {"Get", "Post"}, handler \in {"Simple", "Simple2", "Failing"} :
         HttpMethod(method, handler)
    \/ HttpCreate
    \/ \E path \in {"/", "/foo"}, method \in {"Get", "Post", "none"},
          body \in 0..MaxBody, ok \in BOOLEAN :
         HttpReceive([path |-> path, method |-> method, body |-> body], ok)
    \/ HttpHandler
    \/ HttpComplete

\* ---- Server::process

\* The acceptor: acceptor.accept() returns the next connection; an error is
\* unwrapped.
ProcAccept(ok) ==
    /\ ppc = "running"
    /\ pheld = 0
    /\ pnext <= MaxConns
    /\ IF ok
       THEN /\ pheld' = pnext
            /\ pnext' = pnext + 1
            /\ UNCHANGED ppc
       ELSE /\ ppc' = "panicked"
            /\ UNCHANGED <<pheld, pnext>>
    /\ UNCHANGED <<pchan, pworkers, phanded>>
    /\ UNCHANGED <<cvars, svars, rvars, hvars>>

\* The acceptor: channel.send(io) completes once the channel has room.
ProcSend ==
    /\ ppc = "running"
    /\ pheld # 0
    /\ Len(pchan) < ChannelCap
    /\ pchan' = Append(pchan, pheld)
    /\ pheld' = 0
    /\ UNCHANGED <<pworkers, pnext, phanded, ppc>>
    /\ UNCHANGED <<cvars, svars, rvars, hvars>>

\* A worker: channel.recv() returns the oldest waiting connection, and
\* handle_connection starts on it.
ProcRecv(w) ==
    /\ ppc = "running"
    /\ pworkers[w] = 0
    /\ pchan # <<>>
    /\ pworkers' = [pworkers EXCEPT ![w] = Head(pchan)]
    /\ phanded' = [phanded EXCEPT ![Head(pchan)] = @ \cup {w}]
    /\ pchan' = Tail(pchan)
    /\ UNCHANGED <<pheld, pnext, ppc>>
    /\ UNCHANGED <<cvars, svars, rvars, hvars>>

\* A worker: handle_connection returns.  Its loop is left only by the `?` on
\* handle_request, so that what it returns is an error, which is unwrapped.
ProcConnectionEnds(w) ==
    /\ ppc = "running"
    /\ pworkers[w] # 0
    /\ ppc' = "panicked"
    /\ UNCHANGED <<pchan, pheld, pworkers, pnext, phanded>>
    /\ UNCHANGED <<cvars, svars, rvars, hvars>>

\* The quit future completes: select3 returns and process returns Ok(()).
ProcQuit ==
    /\ ppc = "running"
    /\ ppc' = "returned"
    /\ UNCHANGED <<pchan, pheld, pworkers, pnext, phanded>>
    /\ UNCHANGED <<cvars, svars, rvars, hvars>>

ProcNext ==
    \/ \E ok \in BOOLEAN : ProcAccept(ok)
    \/ ProcSend
    \/ \E w \in 1..Workers : ProcRecv(w)
    \/ \E w \in 1..Workers : ProcConnectionEnds(w)
    \/ ProcQuit

\* ----------------------------------------------------------- specifications

vars == <<cvars, svars, rvars, hvars, pvars>>

Init == ClientInit /\ ServerInit /\ RawInit /\ HttpInit

\* The client alone, the server's loop alone (at one instant of its clock), and
\* the server's protocol core alone, fed requests as its clock advances: the
\* client and the server share no state.
ClientSpecInit == Init /\ sconf.bufLen = 576
ServerSpecInit == Init /\ conf.bufLen = 576
LeaseSpecInit == Init /\ conf.bufLen = 576 /\ sconf.bufLen = 576
RawSpecInit == Init /\ conf.bufLen = 250 /\ sconf.bufLen = 576
ClientSpec == ClientSpecInit /\ [][ClientNext]_vars
ServerSpec == ServerSpecInit /\ [][ServerNext]_vars
LeaseSpec == LeaseSpecInit /\ [][LeaseNext]_vars
RawSpec == RawSpecInit /\ [][RawNext]_vars

\* The HTTP server alone: one connection's requests, and Server::process.  In
\* the fair version the executor polls a future that is ready, and every
\* connection being served ends at some time.
HttpSpecInit == Init /\ conf.bufLen = 250 /\ sconf.bufLen = 576
HttpSpec == HttpSpecInit /\ [][HttpNext]_vars
ProcSpec == HttpSpecInit /\ [][ProcNext]_vars
ProcFairSpec ==
    /\ ProcSpec
    /\ WF_vars(ProcSend)
    /\ WF_vars(\E w \in 1..Workers : ProcRecv(w))
    /\ WF_vars(\E w \in 1..Workers : ProcConnectionEnds(w))

\* -------------------------------------------------------------- properties

\* A call returns in this step with a result of the given kind.
ReturnsWith(kind) == result.kind = "pending" /\ result'.kind = kind

\* C1: run() returns Ok(Some(s)) only from the acquisition site, with no lease
\* held before: the call began with a Discover, discover() returned an Offer,
\* the Request sent last went to the server of that Offer for the address of
\* that Offer, and the datagram received in this step is an Ack with the xid of
\* that Request; s is the Settings of such an Ack, and on return the settings
\* field holds s with the instant of the return.
C1_RunReturnsSome ==
    [][ReturnsWith("OkSome") =>
          /\ call = "run" /\ pc = "req_recv" /\ pc' = "idle"
          /\ settings = None
          /\ loc.site = "acquire"
          /\ firstTx = "Discover"
          /\ IsSome(loc.offer)
          /\ lastTx.type = "Request"
          /\ lastTx.xid = loc.xid
          /\ lastTx.dst = <<Unwrap(loc.offer).server_ip, ServerPort>>
          /\ lastTx.ip = Unwrap(loc.offer).ip
          /\ lastRx' = [how |-> "accepted", xid |-> lastTx.xid, mt |-> "Ack"]
          /\ \E ack \in Replies :
               is_ack(ack, lastTx.xid) /\ result'.val = Some(SettingsOf(ack))
          /\ settings' = result'.val
          /\ age' = 0]_vars

\* run() has returned Ok(Some(s)) and the client is Bound(s, now).
C1_Witness ==
    /\ call = "run" /\ pc = "idle" /\ result.kind = "OkSome"
    /\ settings = result.val /\ age = 0
    /\ lastRx.how = "accepted" /\ lastRx.mt = "Ack"

\* The last attempt of a renewal has waited out its timeout.
RenewalExhausted ==
    /\ pc = "req_loop" /\ loc.site = "renew"
    /\ loc.attempt = RequestAttempts /\ loc.wait >= conf.timeout

\* C2: a renewal answered by a Nak with the xid of its Request, and a renewal
\* whose three attempts all went unanswered, make run() return Ok(None) with
\* the settings cleared; run() returns Ok(None) in no other step; and a run()
\* called next starts without a lease and transmits a Discover first.
C2_RunReturnsNone ==
    /\ [][/\ ReturnsWith("OkNone") =>
               /\ call = "run" /\ loc.site = "renew" /\ pc' = "idle"
               /\ IsSome(settings) /\ settings' = None
               /\ lastTx.type = "Request"
               /\ \/ /\ pc = "req_recv"
                     /\ lastRx' = [how |-> "accepted", xid |-> lastTx.xid, mt |-> "Nak"]
                  \/ RenewalExhausted
          /\ RenewalExhausted => ReturnsWith("OkNone")
          /\ (pc = "req_recv" /\ loc.site = "renew" /\ lastRx'.how = "accepted"
                 /\ lastRx'.mt = "Nak") => ReturnsWith("OkNone")]_vars
    /\ [](afterNone =>
            /\ call = "run"
            /\ firstTx \in {"none", "Discover"}
            /\ (pc \in {"run_loop", "disc_bind", "disc_send"} => settings = None))

\* After a run() that returned Ok(None), the next run() has sent a Discover.
C2_Witness == afterNone /\ firstTx = "Discover" /\ lastTx.type = "Discover"

\* C3: the step that drops the future of run() leaves the settings and their
\* instant as they were; while run() awaits in a renewal or sleeps in Bound the
\* lease is held, and while it awaits in discovery or acquisition there is
\* none; a run() called afterwards takes the settings as they are, keeps the
\* lease if there is one and looks for offers if there is none.
C3_DropKeepsSettings ==
    /\ [][/\ (call = "run" /\ ReturnsWith("Dropped")) =>
               /\ pc \in RunAwaits /\ pc' = "idle"
               /\ settings' = settings /\ age' = age
          /\ (pc = "idle" /\ pc' = "run_loop") => (settings' = settings /\ age' = age)
          /\ pc = "run_loop" =>
               /\ settings' = settings /\ age' = age
               /\ IF IsSome(settings)
                  THEN /\ pc' \in {"bound_sleep", "req_bind", "panicked"}
                       /\ pc' = "req_bind" =>
                            /\ loc'.site = "renew"
                            /\ loc'.ip = Unwrap(settings).ip
                            /\ loc'.server = Unwrap(settings).server_ip
                  ELSE pc' = "disc_bind"]_vars
    /\ [](call = "run" =>
            /\ (pc = "bound_sleep" \/ (pc \in RunAwaits /\ loc.site = "renew"))
                  => IsSome(settings)
            /\ (pc \in RunAwaits /\ pc # "bound_sleep" /\ loc.site # "renew")
                  => settings = None)

\* The future of run() was dropped in a renewal, after its Request went out;
\* the lease is still held.
C3_Witness ==
    /\ call = "run" /\ pc = "idle" /\ result.kind = "Dropped"
    /\ IsSome(settings) /\ lastTx.type = "Request" /\ age > 0

\* The step in which release() is called.
ReleaseCalled == pc = "idle" /\ call' = "release" /\ (pc' # "idle" \/ settings = None)

\* C4: when release() has finished, with Ok or with an error, the settings are
\* None; a release() that held a lease and finished with Ok has sent exactly
\* one Release.
C4_ReleaseClearsSettings ==
    /\ [][(ReleaseCalled /\ IsSome(settings)) => pc' \in {"rel_connect", "panicked"}]_vars
    /\ [](call = "release" /\ pc = "idle" /\ result.kind # "Dropped" =>
            /\ settings = None
            /\ (result.kind = "OkUnit" /\ lastTx.type # "none") => relCount = 1)

\* release() has failed to connect or to send, and the lease is still recorded.
C4_Witness ==
    /\ call = "release" /\ pc = "idle" /\ result.kind = "ErrIo"
    /\ IsSome(settings) /\ relCount = 0

\* C5: release() called without a lease opens no socket, sends nothing, returns
\* Ok(()) and leaves the settings None; two release() calls in a row send at
\* most one Release between them, and no release() panics.
C5_ReleaseIdempotent ==
    /\ [][ReleaseCalled =>
            /\ pc' # "panicked"
            /\ settings = None =>
                 /\ result' = Res("OkUnit", None) /\ pc' = "idle"
                 /\ settings' = None /\ socket' = None
                 /\ lastTx' = NoTx /\ relCount' = 0]_vars
    /\ [](call = "release" => pc # "panicked" /\ prevRel + relCount <= 1)

\* release() has panicked: the lease it was to give up records no server.
C5_Witness ==
    /\ call = "release" /\ pc = "panicked"
    /\ IsSome(settings) /\ Unwrap(settings).server_ip = NoIp

\* C6: a datagram that does not decode, received in discover() or request(),
\* leaves run() in its receive loop: the call neither returns nor fails.
C6_UndecodableSwallowed ==
    [][(pc \in {"disc_recv", "req_recv"} /\ lastRx'.how = "undecodable") =>
          /\ result' = result
          /\ pc' = (IF pc = "disc_recv" THEN "disc_loop" ELSE "req_loop")
          /\ settings' = settings]_vars

\* run() has failed with a format error on a datagram that does not decode.
C6_Witness ==
    /\ call = "run" /\ pc = "idle" /\ result.kind = "ErrFormat"
    /\ lastRx.how = "undecodable"

\* C9: a reply of the awaited type whose xid is not that of the Discover or
\* Request sent last leaves the settings, the phase and the pending xid as they
\* are; discover() ends, and the settings change within run(), only in a step
\* that receives a reply with the xid sent last (or when a renewal has run out
\* of attempts); the xid compared is the one sent last; and no Offer with that
\* xid has been received and passed over while discover() still waits.
C9_XidBinding ==
    /\ [][/\ (pc \in {"disc_recv", "req_recv"} /\ lastRx'.how = "wrong_xid"
                 /\ result' = result) =>
               /\ settings' = settings /\ age' = age
               /\ pc' = (IF pc = "disc_recv" THEN "disc_loop" ELSE "req_loop")
               /\ loc'.xid = loc.xid /\ loc'.site = loc.site
               /\ loc'.attempt = loc.attempt
          /\ (pc = "disc_recv" /\ pc' \notin {"disc_recv", "disc_loop", "idle"}) =>
               lastRx' = [how |-> "accepted", xid |-> lastTx.xid, mt |-> "Offer"]
          /\ (call = "run" /\ pc # "idle" /\ settings' # settings) =>
               \/ /\ pc = "req_recv"
                  /\ lastRx'.how = "accepted" /\ lastRx'.xid = lastTx.xid
                  /\ lastRx'.mt \in {"Ack", "Nak"}
               \/ RenewalExhausted]_vars
    /\ [](pc \in {"disc_loop", "disc_recv", "req_loop", "req_recv"} =>
            /\ lastTx.xid = loc.xid
            /\ lastRx.how # "accepted"
            /\ lastRx.how = "wrong_xid" => lastRx.xid # loc.xid)

\* In a second or third attempt of request(), a reply that carries the xid of
\* the attempt before has been passed over.
C9_Witness ==
    /\ pc = "req_loop" /\ loc.attempt >= 2
    /\ lastRx.how = "wrong_xid" /\ lastRx.xid = loc.prevXid
    /\ loc.prevXid # loc.xid

\* The step in which the server's receive completes with a datagram.
ServerReceived ==
    spc = "recv" /\ snow' = snow /\ sresult' \notin {"Dropped", "ErrIo"}

\* C7: the server's run() ends only with an I/O error of bind, receive or
\* send; a datagram that does not decode, and a request that gets no reply,
\* leave it receiving.
C7_ServerStopsOnlyOnIo ==
    /\ [][(ServerReceived /\ handled' \in {"undecodable", "no_reply"}) =>
            spc' = "recv"]_vars
    /\ [](spc = "stopped" /\ sresult \notin {"none", "Dropped"} => sresult = "ErrIo")

\* The server's run() has ended with a format error on a datagram that does
\* not decode.
C7_Witness == spc = "stopped" /\ sresult = "ErrFormat" /\ handled = "undecodable"

SomeReplyOverflows ==
    \E y \in {NoAddr, RangeStart} : ~EncodeFits(ReplyLen([yiaddr |-> y]), sconf.bufLen)

C10_LeaseUniqueness ==
    \A m1 \in DOMAIN leases : \A m2 \in DOMAIN leases :
        (m1 # m2 /\ leases[m1].committed /\ leases[m2].committed)
            => leases[m1].ip # leases[m2].ip

\* Two clients hold committed leases, the one on the first address of the range
\* committed late enough that a lease made at the start has run out.
C10_Witness ==
    \E m1 \in DOMAIN leases : \E m2 \in DOMAIN leases :
        /\ m1 # m2 /\ leases[m1].committed /\ leases[m2].committed
        /\ leases[m1].ip = RangeStart /\ leases[m1].expires_at > LeaseDurationSecs + 1

\* C11: whatever the lease map has come to and whatever request arrives, an
\* Offer or Ack that assigns an address assigns one of the configured range
\* (the Ack to an Inform assigns none), and every lease of the map is on an
\* address of the range.
C11_RangeContainment ==
    /\ \A m \in DOMAIN leases : InRange(leases[m].ip)
    /\ \A request \in Requests :
         LET out == handle_request(leases, request, snow)
         IN  /\ \A m \in DOMAIN out.leases : InRange(out.leases[m].ip)
             /\ (IsSome(out.reply) /\ Unwrap(out.reply).mt \in {"Offer", "Ack"}
                    /\ Unwrap(out.reply).yiaddr # NoAddr)
                  => InRange(Unwrap(out.reply).yiaddr)

\* A lease is recorded, and a Discover that asks for the address beyond the
\* range is offered an address of the range.
C11_Witness ==
    /\ leases # EmptyLeases
    /\ \E request \in Requests :
         /\ request.mt = "Discover" /\ request.reqip = RangeEnd + 1
         /\ request.chaddr \notin DOMAIN leases
         /\ LET out == handle_request(leases, request, snow)
            IN  /\ IsSome(out.reply) /\ Unwrap(out.reply).mt = "Offer"
                /\ InRange(Unwrap(out.reply).yiaddr)

\* The UDP payload of a frame: the bytes after the IPv4 and UDP headers.
PayloadOf(frame) == SubSeq(frame, IpHeaderLen + UdpHeaderLen + 1, Len(frame))

\* C12: receive_into returns for the first frame, in arrival order, that
\* ip_udp_decode turns into a matching payload: while it waits every frame
\* read so far was skipped, a skipped frame (None, InvalidFormat,
\* InvalidChecksum) leaves the call waiting, and the call ends with an error
\* only on an I/O error of the raw socket or when the accepted payload is
\* longer than the caller's buffer.
C12_ReceiveSkips ==
    /\ [](rcall.op = "receive_into" =>
            /\ rpc = "recv" =>
                 /\ rresult.kind = "pending"
                 /\ \A i \in 1..Len(rseen) : rseen[i] # "some"
            /\ rpc = "idle" =>
                 /\ rresult.kind \in {"Ok", "BufferOverflow", "Io"}
                 /\ \A i \in 1..(Len(rseen) - 1) : rseen[i] # "some"
                 /\ rresult.kind = "Io" =>
                      \A i \in 1..Len(rseen) : rseen[i] # "some"
                 /\ rresult.kind \in {"Ok", "BufferOverflow"} =>
                      /\ rseen # <<>> /\ rseen[Len(rseen)] = "some"
                      /\ rsock # None =>
                           ip_udp_decode(raccepted, Filters(Unwrap(rsock)).src,
                                         Filters(Unwrap(rsock)).dst).kind = "some"
                 /\ rresult.kind = "BufferOverflow" =>
                      Len(PayloadOf(raccepted)) > Len(rbuffer))
    /\ [][(rpc = "recv" /\ Len(rseen') > Len(rseen)) =>
            IF rseen'[Len(rseen')] \in {"none", "InvalidFormat", "InvalidChecksum"}
            THEN rpc' = "recv" /\ rresult' = rresult /\ rbuffer' = rbuffer
            ELSE /\ rseen'[Len(rseen')] = "some"
                 /\ rpc' = "idle"
                 /\ rresult'.kind \in {"Ok", "BufferOverflow"}]_vars

\* A receive that skipped a packet that is no UDP datagram for it, a frame cut
\* short and a frame with a bad checksum before it returned.
C12_Witness ==
    /\ rcall.op = "receive_into" /\ rpc = "idle"
    /\ rresult.kind = "Ok"
    /\ rseen = <<"none", "InvalidFormat", "InvalidChecksum", "some">>

\* C13: when receive_into succeeds with length n, the first n bytes of the
\* caller's buffer are the UDP payload of the accepted frame.
C13_PayloadDelivered ==
    (rcall.op = "receive_into" /\ rpc = "idle" /\ rresult.kind = "Ok") =>
        /\ rresult.len = Len(PayloadOf(raccepted))
        /\ SubSeq(rbuffer, 1, rresult.len) = PayloadOf(raccepted)

\* A successful receive of a non-empty payload that left the head of the
\* frame's IPv4 header in the caller's buffer.
C13_Witness ==
    /\ rcall.op = "receive_into" /\ rpc = "idle"
    /\ rresult.kind = "Ok"
    /\ rresult.len = RawBufLen
    /\ SubSeq(rbuffer, 1, rresult.len) = SubSeq(raccepted, 1, rresult.len)
    /\ SubSeq(rbuffer, 1, rresult.len) # PayloadOf(raccepted)

\* C14: a receive whose accepted payload is longer than the caller's buffer
\* fails with BufferOverflow and leaves that buffer as it was; send,
\* connect_from, bind_single and bind_multiple given a non-IPv4 address fail
\* with UnsupportedProtocol, having bound no raw socket and sent no frame.
C14_RawErrors ==
    LET NonIpv4Given ==
            \/ /\ rcall.op \in {"connect_from", "send"}
               /\ rcall.local.v # 4 \/ rcall.remote.v # 4
            \/ /\ rcall.op \in {"bind_single", "bind_multiple"}
               /\ rcall.local.v # 4
    IN  /\ (rcall.op = "receive_into" /\ rpc = "idle" /\ raccepted # <<>>
              /\ Len(PayloadOf(raccepted)) > Len(rbuffer)) =>
               /\ rresult.kind = "BufferOverflow"
               /\ rbuffer = FreshBuffer
        /\ NonIpv4Given =>
               /\ rpc = "idle"
               /\ rresult.kind = "UnsupportedProtocol"
               /\ rbinds = 0
               /\ rsent = <<>>
        /\ rresult.kind = "UnsupportedProtocol" => NonIpv4Given

\* A receive that accepted a payload of three bytes for a buffer of two.
C14_Witness ==
    /\ rcall.op = "receive_into" /\ rpc = "idle"
    /\ Len(PayloadOf(raccepted)) > RawBufLen
    /\ rresult.kind = "BufferOverflow"

\* A send on an unconnected socket to an IPv6 address.
C14_WitnessUnsupported ==
    /\ rcall.op = "send"
    /\ rsock # None
    /\ rcall.remote.v # 4
    /\ rresult.kind = "UnsupportedProtocol"

\* In this step a Request goes out on the wire.
RequestTransmitted == lastTx' # lastTx /\ lastTx'.type = "Request"

\* C15: a Requesting or Renewing phase makes at most 3 attempts, and each
\* attempt transmits one Request: a Request goes out only from the send of an
\* attempt, on the socket bound and with the xid drawn at the start of that
\* attempt; a further attempt starts only when the wait of the previous one is
\* over with no Ack or Nak accepted; when the wait of the third attempt is over
\* the phase ends without a lease and without an error.
C15_RequestAttempts ==
    /\ [](pc \in {"req_bind", "req_send", "req_loop", "req_recv"}
            => loc.attempt \in 1..RequestAttempts)
    /\ [][RequestTransmitted =>
            /\ pc = "req_send" /\ pc' = "req_loop"
            /\ IsSome(socket) /\ lastTx'.xid = loc.xid]_vars
    /\ [][(pc' = "req_send" /\ pc # "req_send") =>
            /\ pc = "req_bind"
            /\ socket = None /\ IsSome(socket')
            /\ loc'.xid \in Xids /\ loc'.prevXid = loc.xid
            /\ loc'.attempt = loc.attempt]_vars
    /\ [][(pc' = "req_bind" /\ pc # "req_bind") =>
            \/ /\ pc \in {"run_loop", "disc_recv"}
               /\ loc'.attempt = 1
            \/ /\ pc = "req_loop"
               /\ loc.wait >= conf.timeout
               /\ lastRx.how # "accepted"
               /\ loc'.attempt = loc.attempt + 1
               /\ socket' = None]_vars
    /\ [][(pc = "req_loop" /\ loc.attempt = RequestAttempts
             /\ loc.wait >= conf.timeout) =>
            /\ settings' = None
            /\ \/ pc' = "idle" /\ result'.kind = "OkNone"
               \/ pc' = "run_loop" /\ result' = result]_vars

\* The third Request of a phase has been sent and its wait is over.
C15_Witness ==
    /\ pc = "req_loop"
    /\ loc.attempt = RequestAttempts
    /\ loc.wait >= conf.timeout
    /\ lastTx.type = "Request"
    /\ lastRx.how # "accepted"

\* C16: after a Discover or a Request is sent the client listens for the reply
\* no longer than the configured timeout, whatever else arrives: whenever it
\* is at the head of a wait loop or receiving, no more than the timeout has
\* passed since the send.  When the wait for Offers ends the socket is
\* released and the client sleeps; after the sleep it binds again for a new
\* Discover.
C16_ListenBounded ==
    /\ [](pc \in {"disc_loop", "disc_recv", "req_loop", "req_recv"}
            => loc.wait <= conf.timeout)
    /\ [][(pc = "disc_loop" /\ pc' # "disc_recv") =>
            pc' = "disc_sleep" /\ socket' = None]_vars
    /\ [][(pc = "disc_sleep" /\ pc' # "disc_sleep") =>
            pc' \in {"disc_bind", "idle"}]_vars

\* The client is back at the head of the wait for Offers 12 s after the
\* Discover went out, having listened all the time.
C16_Witness ==
    /\ pc = "disc_loop"
    /\ lastTx.type = "Discover"
    /\ loc.wait > conf.timeout

\* The lease time the renewal check goes by: lease_time_secs, 7200 s if absent.
LeaseSecs(s) ==
    IF IsSome(s.lease_time_secs) THEN Unwrap(s.lease_time_secs) ELSE DefaultLeaseSecs

\* C17: while Bound, a check that finds less than a third of the lease time
\* elapsed sends nothing and sleeps; the 60 s sleep sends nothing and leads
\* back to the check; a check that finds a third of the lease time or more
\* elapsed enters Renewing, and Renewing is entered by no other step.
C17_BoundKeeping ==
    /\ [][(pc = "run_loop" /\ IsSome(settings)) =>
            /\ lastTx' = lastTx
            /\ IF 3 * age >= LeaseSecs(Unwrap(settings))
               THEN pc' = "req_bind" /\ loc'.site = "renew"
               ELSE pc' = "bound_sleep"]_vars
    /\ [][pc = "bound_sleep" =>
            /\ lastTx' = lastTx
            /\ pc' \in {"bound_sleep", "run_loop", "idle"}
            /\ pc' = "run_loop" => age' > age]_vars
    /\ [][(loc.site # "renew" /\ loc'.site = "renew") =>
            /\ pc = "run_loop" /\ IsSome(settings)
            /\ 3 * age >= LeaseSecs(Unwrap(settings))]_vars

\* run() has panicked at a check that found the renewal due.
C17_Witness ==
    /\ call = "run"
    /\ pc = "panicked"
    /\ IsSome(settings)
    /\ 3 * age >= LeaseSecs(Unwrap(settings))
    /\ firstTx = "none"

\* C18: when no time has passed outside run() since the lease was acquired,
\* the first Request of a renewal goes out before the lease time granted by
\* the server has elapsed.
C18_TimelyRenewal ==
    [][(RequestTransmitted /\ loc.site = "renew" /\ loc.attempt = 1
          /\ ~idled /\ IsSome(Unwrap(settings).lease_time_secs)) =>
         age < Unwrap(Unwrap(settings).lease_time_secs)]_vars

\* The first renewal Request of a lease of 30 s has gone out when the lease
\* was 60 s old, run() having been in progress whenever time passed.
C18_Witness ==
    /\ pc = "req_loop"
    /\ loc.site = "renew"
    /\ loc.attempt = 1
    /\ lastTx.type = "Request"
    /\ ~idled
    /\ IsSome(settings)
    /\ IsSome(Unwrap(settings).lease_time_secs)
    /\ age >= Unwrap(Unwrap(settings).lease_time_secs)

\* C19: the Request of a renewal goes to the server recorded in the current
\* settings, for the recorded IP; when its Ack is accepted run() does not
\* return: the settings become those of an Ack for the pending xid, the
\* instant of acquisition becomes now, and run() is back at the head of its
\* lease-keeping loop.
C19_RenewalKeepsRunning ==
    /\ [][(RequestTransmitted /\ loc.site = "renew") =>
            /\ IsSome(settings)
            /\ lastTx'.dst = <<Unwrap(settings).server_ip, ServerPort>>
            /\ lastTx'.ip = Unwrap(settings).ip]_vars
    /\ [][(pc = "req_recv" /\ loc.site = "renew"
             /\ lastRx'.how = "accepted" /\ lastRx'.mt = "Ack") =>
            /\ \E ack \in Replies :
                 /\ ack.reply /\ ack.mt = "Ack" /\ ack.chaddr = ClientMac
                 /\ ack.xid = loc.xid /\ ack.xid = lastRx'.xid
                 /\ settings' = Some([ip |-> ack.yiaddr, server_ip |-> ack.sid,
                                      lease_time_secs |-> ack.lease])
            /\ age' = 0
            /\ pc' = "run_loop"
            /\ call' = "run"
            /\ result' = result /\ result.kind = "pending"]_vars

\* A run() that was called with a lease, sent a renewal Request, accepted the
\* Ack and is back at the head of its loop with the lease dated now.
C19_Witness ==
    /\ call = "run"
    /\ pc = "run_loop"
    /\ firstTx = "Request"
    /\ lastRx.how = "accepted" /\ lastRx.mt = "Ack"
    /\ IsSome(settings)
    /\ age = 0
    /\ result.kind = "pending"

\* C20: during acquisition a matching Nak, or the end of the third unanswered
\* attempt, takes run() back to the head of its loop: it does not return, it
\* reports no error and the settings stay None.  From there, with no lease,
\* run() goes on to discover(), and the first message discover() transmits is
\* a Discover; it reaches request() again only through the receive that
\* follows that Discover.
C20_BackToInit ==
    /\ [][(/\ loc.site = "acquire"
           /\ \/ pc = "req_recv" /\ lastRx'.how = "accepted" /\ lastRx'.mt = "Nak"
              \/ /\ pc = "req_loop" /\ loc.attempt = RequestAttempts
                 /\ loc.wait >= conf.timeout) =>
            /\ settings = None /\ settings' = None
            /\ pc' = "run_loop"
            /\ call' = "run"
            /\ result' = result /\ result.kind = "pending"
            /\ lastTx' = lastTx]_vars
    /\ [][(pc = "run_loop" /\ settings = None) =>
            pc' = "disc_bind" /\ lastTx' = lastTx]_vars
    /\ [][(pc = "disc_bind" /\ pc' # "disc_bind") =>
            pc' \in {"disc_send", "idle"} /\ lastTx' = lastTx]_vars
    /\ [][(pc = "disc_send" /\ pc' \notin {"disc_send", "idle"}) =>
            lastTx'.type = "Discover" /\ lastTx'.dst = <<BROADCAST, ServerPort>>]_vars
    /\ [][(pc \in {"disc_bind", "disc_send", "disc_loop", "disc_recv", "disc_sleep"}
             /\ lastTx' # lastTx) =>
            lastTx'.type = "Discover"]_vars

\* run() is back at the head of its loop after a Nak to the Request of an
\* acquisition: no lease, no result.
C20_Witness ==
    /\ call = "run"
    /\ pc = "run_loop"
    /\ settings = None
    /\ lastTx.type = "Request"
    /\ lastRx.how = "accepted" /\ lastRx.mt = "Nak"
    /\ result.kind = "pending"

\* run() is back at the head of its loop after three unanswered Requests of
\* an acquisition.
C20_WitnessExhausted ==
    /\ call = "run"
    /\ pc = "run_loop"
    /\ settings = None
    /\ lastTx.type = "Request"
    /\ lastRx.how # "accepted"
    /\ result.kind = "pending"

\* C21: the client does one thing at a time.  A Discover goes out only while
\* no lease is held; a Request goes out either in an acquisition, to the
\* server and for the IP of the Offer accepted in it, no lease being held, or
\* as a renewal, a lease being held; while discover() is in progress no
\* request() is, and a renewal is in progress only inside request() with a
\* lease held.
C21_Sequential ==
    /\ [][(pc = "disc_send" /\ pc' = "disc_loop") =>
            settings = None /\ lastTx'.type = "Discover"]_vars
    /\ [][(lastTx' # lastTx /\ lastTx'.type = "Discover") => settings = None]_vars
    /\ [][((pc = "req_send" /\ pc' = "req_loop") \/ RequestTransmitted) =>
            /\ lastTx'.type = "Request"
            /\ \/ /\ loc.site = "acquire"
                  /\ settings = None
                  /\ IsSome(loc.offer)
                  /\ lastTx'.dst = <<Unwrap(loc.offer).server_ip, ServerPort>>
                  /\ lastTx'.ip = Unwrap(loc.offer).ip
               \/ /\ loc.site = "renew"
                  /\ IsSome(settings)]_vars
    /\ [](/\ pc \in {"disc_bind", "disc_send", "disc_loop", "disc_recv", "disc_sleep"}
            => settings = None /\ loc.site = "none"
          /\ loc.site = "renew"
            => IsSome(settings) /\ pc \in {"req_bind", "req_send", "req_loop", "req_recv"}
          /\ loc.site = "acquire"
            => settings = None /\ pc \in {"req_bind", "req_send", "req_loop", "req_recv"})

\* The Request of an acquisition has gone out to the server whose Offer was
\* accepted, for the offered IP.
C21_Witness ==
    /\ pc = "req_loop"
    /\ loc.site = "acquire"
    /\ settings = None
    /\ IsSome(loc.offer)
    /\ lastTx.type = "Request"
    /\ lastTx.dst = <<Unwrap(loc.offer).server_ip, ServerPort>>
    /\ lastTx.ip = Unwrap(loc.offer).ip

\* C22: the client holds at most one bound socket: a socket is bound only
\* while none is held.  It holds none while it sleeps between Discover rounds
\* or in Bound, at the head of run()'s loop, and when no call is in progress
\* (the last call has returned a value or an error, or its future was
\* dropped).
C22_NoSocketLeak ==
    /\ [](pc \in {"disc_sleep", "bound_sleep", "run_loop", "idle"} => socket = None)
    /\ [][(IsSome(socket') /\ socket' # socket) =>
            socket = None /\ pc \in {"disc_bind", "req_bind", "rel_connect"}]_vars
    /\ [][(pc' = "idle" /\ pc # "idle") =>
            /\ socket' = None
            /\ result'.kind \in {"OkSome", "OkNone", "OkUnit", "ErrIo", "ErrFormat",
                                 "Dropped"}]_vars

\* The client sleeps between two Discover rounds, the socket of the round
\* that ended released.
C22_Witness ==
    /\ pc = "disc_sleep"
    /\ lastTx.type = "Discover"
    /\ socket = None

\* C23: when a reply and the expiry of the wait timer become ready in the same
\* poll of a receive wait, the reply wins: it is handled as a received
\* datagram (an accepted Offer leaves the discover loop, an accepted Ack or Nak
\* ends the request), and no datagram that was ready is dropped in favour of
\* the timer.
C23_PacketBeatsTimer ==
    /\ [](lastRx.how # "lost")
    /\ [][rxLate' =>
            /\ pc \in {"disc_recv", "req_recv"}
            /\ lastRx'.how = "accepted"
            /\ pc' \notin {"disc_loop", "req_loop"}]_vars

C23_Witness ==
    /\ rxLate
    /\ lastRx.how = "accepted"
    /\ lastRx.mt = "Offer"
    /\ pc = "req_bind"

\* C24: a frame's destination is the socket's local side and its source the
\* remote side: a receive on a connected socket (local L, remote R) succeeds
\* only with a frame sent from R to L; a receive on an unconnected socket bound
\* to L succeeds only with a frame destined to L and reports the frame's
\* destination as `local` and the frame's source as `remote`.
C24_DestinationIsLocal ==
    (rcall.op = "receive_into" /\ rpc = "idle" /\ rresult.kind = "Ok"
        /\ rsock # None) =>
        LET accepted == ip_udp_decode(raccepted, None, None)
            sock == Unwrap(rsock)
        IN  /\ FilterMatches(Some(sock.local), accepted.dst)
            /\ sock.kind = "connected" => FilterMatches(sock.remote, accepted.src)
            /\ sock.kind # "connected" =>
                 /\ rresult.local = accepted.dst
                 /\ rresult.remote = accepted.src

\* A connected socket (local L, remote R) that delivered a frame sent from L
\* to R, and not from R to L.
C24_Witness ==
    /\ rcall.op = "receive_into" /\ rpc = "idle" /\ rresult.kind = "Ok"
    /\ rsock # None
    /\ Unwrap(rsock).kind = "connected"
    /\ LET accepted == ip_udp_decode(raccepted, None, None)
       IN  /\ accepted.src = Unwrap(rsock).local
           /\ Some(accepted.dst) = Unwrap(rsock).remote
           /\ accepted.src # accepted.dst

\* An unconnected socket that reported the frame's source as `local` and the
\* frame's destination as `remote`.
C24_WitnessUnconnected ==
    /\ rcall.op = "receive_into" /\ rpc = "idle" /\ rresult.kind = "Ok"
    /\ rsock # None
    /\ Unwrap(rsock).kind # "connected"
    /\ LET accepted == ip_udp_decode(raccepted, None, None)
       IN  /\ rresult.local = accepted.src
           /\ rresult.remote = accepted.dst
           /\ accepted.src # accepted.dst

\* C25: every message the client transmits is addressed to UDP port 67: a
\* Discover to 255.255.255.255:67, a Request and a Release to port 67 of the
\* server.
C25_ToServerPort ==
    [][(lastTx' # lastTx /\ lastTx'.type # "none") =>
        /\ lastTx'.dst[2] = ServerPort
        /\ lastTx'.type = "Discover" => lastTx'.dst[1] = BROADCAST
        /\ lastTx'.type \in {"Request", "Release"} => lastTx'.dst[1] \in ServerIps]_vars

\* A Release that went out to the client's own port on the server.
C25_Witness ==
    /\ lastTx.type = "Release"
    /\ lastTx.dst[1] \in ServerIps
    /\ lastTx.dst[2] = ClientPort
    /\ result.kind = "OkUnit"

\* C26: the client never panics: run() and release() never unwrap an absent
\* server identity, whatever Offer or Ack was accepted before.
C26_NoPanic == result.kind # "Panic"

\* release() panicked on the settings taken from an accepted Ack that carried
\* no ServerIdentifier.
C26_Witness ==
    /\ result.kind = "Panic"
    /\ call = "release"
    /\ IsSome(settings)
    /\ Unwrap(settings).server_ip = NoIp

\* C27: a ServerConnection goes from RequestState to ResponseState at most
\* once and never back (the next request of the connection gets a new one);
\* without I/O errors a handled request has exactly one status line and header
\* block written, at that transition and with the request body read to its
\* end; complete_request called in ResponseState writes nothing and returns
\* None.
C27_OneWay ==
    /\ [][(hconn = "ResponseState" /\ hconn' # "ResponseState") =>
            (hpc = "done" /\ hwritten' = <<>>)]_vars
    /\ [][(hconn' = "ResponseState" /\ hconn # "ResponseState") =>
            /\ hconn = "RequestState"
            /\ Len(hwritten') > Len(hwritten)
            /\ hwritten'[Len(hwritten) + 1].what = "head"
            /\ hunread' = 0]_vars
    /\ [][(\E i \in DOMAIN hwritten' :
              i > Len(hwritten) /\ hwritten'[i].what \in {"head", "status"}) =>
            (hconn = "RequestState" /\ hconn' \in {"ResponseState", "Taken"})]_vars
    /\ [][(hpc \in {"handler", "complete"} /\ hconn = "ResponseState") =>
            (hlast' = "None" /\ hwritten' = hwritten /\ hconn' = hconn)]_vars
    /\ [](/\ hconn = "ResponseState" => hunread = 0
          /\ (hpc = "done" /\ ~hio) =>
               Cardinality({i \in DOMAIN hwritten : hwritten[i].what = "head"}) = 1)

C27_Witness ==
    /\ hpc = "done"
    /\ ~hio
    /\ hreq.body > 0
    /\ hinvoked > 0
    /\ hlast = "None"
    /\ hconn = "ResponseState"
    /\ Len(hwritten) = 1
    /\ hwritten[1] = [what |-> "head", code |-> 200, unread |-> 0]

\* C28: without I/O error, handle_request returns Ok(()) whenever the handler
\* returned Ok, whether the handler left the response to the server (which
\* then sends 200 OK) or started it itself through into_response; a handler
\* error before any response was started gives a 500 response carrying the
\* message and Ok(()) as well.
C28_OkWhenHandlerOk ==
    (hpc = "done" /\ ~hio /\ hret # "none" /\ hinvoked > 0) =>
        /\ hret = "Ok" => hresult = "Ok"
        /\ (hret = "Ok" /\ hlast = "Some") =>
             hwritten = <<[what |-> "head", code |-> 200, unread |-> 0],
                          [what |-> "finish", code |-> 0, unread |-> 0]>>
        /\ (hret = "Err" /\ hlast = "Some") =>
             /\ hresult = "Ok"
             /\ hwritten = <<[what |-> "head", code |-> 500, unread |-> 0],
                             [what |-> "message", code |-> 0, unread |-> 0]>>

\* A request given to a registered Simple2, which started the response and
\* returned Ok: handle_request returned Err(IncompleteBody).
C28_Witness ==
    /\ hpc = "done"
    /\ ~hio
    /\ hret = "Ok"
    /\ hinvoked > 0
    /\ hbuilder.chain[hinvoked].handler = "Simple2"
    /\ hresult = "IncompleteBody"

\* C30: the handler that runs for a request is the one of the chain entry
\* whose path and method are those of the request, the entry registered last
\* if several match; the terminal `()` runs only when no entry matches.
C30_DispatchByPath ==
    (hpc \in {"complete", "done"} /\ hret # "none") =>
        hinvoked = HandlerChainHandle(hbuilder.chain, hreq.path, hreq.method)

\* A GET of "/" with a handler registered for GET at "/": the terminal `()`
\* ran.
C30_Witness ==
    /\ hpc = "done"
    /\ hret # "none"
    /\ hreq.path = "/"
    /\ hreq.method = "Get"
    /\ \E i \in DOMAIN hbuilder.chain :
         hbuilder.chain[i].path = "/" /\ hbuilder.chain[i].method = "Get"
    /\ hinvoked = 0

\* A GET of "/foo" with a handler registered for GET at the empty path only:
\* that handler ran.
C30_WitnessEmptyPath ==
    /\ hpc = "done"
    /\ hreq.path = "/foo"
    /\ hreq.method = "Get"
    /\ hinvoked > 0
    /\ hbuilder.chain[hinvoked].path = ""

\* C29: in Server::process with P workers and a channel of capacity W, every
\* accepted connection is handed to exactly one worker (to no second one, and
\* to one at some time unless process returns before), at most P connections
\* are being served and at most W wait in the channel at any time, and the
\* acceptor accepts no connection while the channel is full.
C29_Handover ==
    /\ [](/\ \A c \in 1..MaxConns : Cardinality(phanded[c]) <= 1
          /\ Cardinality({w \in 1..Workers : pworkers[w] # 0}) <= Workers
          /\ \A w, v \in 1..Workers :
               (pworkers[w] # 0 /\ pworkers[w] = pworkers[v]) => w = v
          /\ Len(pchan) <= ChannelCap)
    /\ [][pnext' # pnext => Len(pchan) < ChannelCap]_vars
    /\ \A c \in 1..MaxConns :
         (pheld = c) ~> (phanded[c] # {} \/ ppc = "returned")

\* The acceptor holds a connection it accepted while the channel was full.
C29_Witness ==
    /\ ppc = "running"
    /\ pheld # 0
    /\ Len(pchan) = ChannelCap

\* process has ended in a panic, by a worker whose connection ended, with
\* accepted connections that no worker was handed.
C29_WitnessPanic ==
    /\ ppc = "panicked"
    /\ \E w \in 1..Workers : pworkers[w] # 0
    /\ pchan # <<>>

====
